---- MODULE Spec2Model ----
(***************************************************************************)
(* A model of gohttpc: the weighted round-robin load balancer with its     *)
(* hosts and circuit breakers (loadbalancer, loadbalancer/roundrobin) and  *)
(* the request executor with its retry loop (request.go).                  *)
(***************************************************************************)
EXTENDS Integers, Sequences, FiniteSets, TLC

(***************************************************************************)
(* Bounds of the model.                                                    *)
(***************************************************************************)
MaxWeight == 2
MaxFailureThreshold == 2
MaxSuccessThreshold == 2
MaxCurrentWeight == 12
MaxPicks == 8
MaxAttempts == 3
MaxDispatch == 4
MaxDelay == 2
MaxProcs == 2
MaxExecutions == 2
MaxRetryAfter == 2
MaxJitter == 1
BodyLen == 2

(***************************************************************************)
(* Program constants.                                                      *)
(***************************************************************************)
StatusOK == 200
StatusBadRequest == 400
StatusTooManyRequests == 429
StatusInternalServerError == 500
StatusNotImplemented == 501
StatusBadGateway == 502
StatusGatewayTimeout == 504
StatusServiceUnavailable == 503
StatusNetworkConnectTimeout == 599
StatusBeyondServerErrors == 600
\* The number of requests of the integration tests of the balancer.
Requests == 10
\* The outcome of an HTTP round trip that produced no response (resp == nil,
\* err != nil) is written as status 0; 0 is also the zero value of
\* lastHTTPErrorStatus.
NoResponse == 0

\* The host objects of the program.
HostIds == {1, 2}
DoOutcomes == {NoResponse, StatusOK, StatusInternalServerError, StatusBadGateway,
               StatusGatewayTimeout}

VARIABLES
    hosts,                \* wrr.hosts: the ordered list of hosts of the balancer
    isSameWeight,         \* wrr.isSameWeight
    totalWeight,          \* wrr.totalWeight (the cursor in equal-weight mode)
    weight,               \* Host.weight, per host object
    currentWeight,        \* Host.currentWeight, per host object
    lastHTTPErrorStatus,  \* Host.lastHTTPErrorStatus, per host object
    cb,                   \* the circuit breaker of Host.healthCheckPolicy, per host object
    failureThreshold,     \* httpHealthCheckPolicyBuilder.failureThreshold
    successThreshold,     \* httpHealthCheckPolicyBuilder.successThreshold
    streak,               \* history: consecutive failures recorded on each breaker
    picks,                \* history: the hosts returned by Next, in order
    ev,                   \* history: the last operation on a host and its result
    retry,                \* Request.getRetryPolicy(): set, maxAttempts, httpStatus
    isDebug,              \* Execute's isDebug: the logger has the debug level enabled
    pc,                   \* where the Execute call is
    retryAttempts,        \* Request.retryAttempts
    failedAttempts,       \* the retry policy executor's failedAttempts
    dispatched,           \* history: the number of doRequest calls of the Execute call
    last,                 \* history: what the last doRequest call returned
    waitLeft,             \* what is left of the delay before the next attempt
    cancelled,            \* the context given to Execute is done
    ret,                  \* what Execute returned
    recorded,             \* history: outcomes recorded on each breaker (0, 1, more)
    activeRequests,       \* the http.client.active_requests counter, from 0
    metric,               \* history: the Adds on active_requests and its lowest value
    lock,                 \* wrr.lock: 0 when free, else the process holding it
    tick,                 \* wrr.tick: 0 for nil, else the ticker (named by its creator)
    timers,               \* each ticker: "none", "running" or "stopped"
    pending,              \* the tickers with a tick waiting in their channel
    ctxDone,              \* the processes whose context is done
    closes,               \* history: the number of Host.Close calls on each host
    proc,                 \* each process: its operation, where it is, its locals
    healthCheckInterval,  \* wrr.healthCheckInterval (0 or 1 unit)
    reqBody,              \* the body reader of the request: kind, pos, closed
    sent,                 \* history: the body each client.Do call was given to send
    executions,           \* history: the number of Execute calls on the request
    durations,            \* history: the http.client.request.duration samples
    response,             \* a Response: body, isBodyRead, closed
    bodyLog,              \* history: Close calls on the body, contents handed out
    span,                 \* the tracer of one attempt (HTTPClientTracer)
    serverDuration,       \* history: the records of http.client.server.duration
    conns,                \* the connections the dial function returned
    openConnections       \* the value of http.client.open_connections

lbVars == <<hosts, isSameWeight, totalWeight>>
hostVars == <<weight, currentWeight, lastHTTPErrorStatus, cb>>
cfgVars == <<failureThreshold, successThreshold>>
vars == <<hosts, isSameWeight, totalWeight, weight, currentWeight,
          lastHTTPErrorStatus, cb, failureThreshold, successThreshold, streak, picks, ev,
          retry, isDebug, pc, retryAttempts, failedAttempts, dispatched, last, waitLeft,
          cancelled, ret, recorded, activeRequests, metric, lock, tick, timers, pending,
          ctxDone, closes, proc, healthCheckInterval, reqBody, sent, executions,
          durations, response, bodyLog, span, serverDuration, conns, openConnections>>
histVars == <<streak, picks, ev, recorded>>
execVars == <<retry, isDebug, pc, retryAttempts, failedAttempts, dispatched, last,
              waitLeft, cancelled, ret, activeRequests, metric, reqBody, sent,
              executions, durations>>
concVars == <<lock, tick, timers, pending, ctxDone, closes, proc, healthCheckInterval>>
respVars == <<response, bodyLog>>
telemetryVars == <<span, serverDuration, conns, openConnections>>

(***************************************************************************)
(* The circuit breaker (failsafe-go circuitbreaker, count based), as it is *)
(* configured by httpHealthCheckPolicyBuilder.Build.  A breaker is a       *)
(* record: state; n, the failures of the closed state's window or the      *)
(* successes of the half-open state's; expired, whether the delay has      *)
(* elapsed since it opened.                                                *)
(***************************************************************************)
ClosedCB == [state |-> "closed", n |-> 0, expired |-> FALSE]
OpenCB == [state |-> "open", n |-> 0, expired |-> FALSE]
HalfOpenCB == [state |-> "half-open", n |-> 0, expired |-> FALSE]

\* Build: WithFailureThreshold(k), WithSuccessThreshold(s), then policy.HalfOpen().
BuildCB(k, s) == HalfOpenCB

\* RecordFailure / RecordError(err) / RecordResult(status # successStatus).
\* closed: the window holds the last k executions, the breaker opens when all
\* k are failures; half-open: failures > capacity - successThreshold = 0 opens;
\* open: nothing.
RecordFailure(b, k, s) ==
    CASE b.state = "closed" ->
            IF b.n + 1 >= k THEN OpenCB ELSE [b EXCEPT !.n = b.n + 1]
      [] b.state = "half-open" -> OpenCB
      [] OTHER -> b

\* A variant of RecordSuccess whose half-open breaker closes at its first
\* success.
RecordSuccessClosingAtOnce(b, k, s) ==
    CASE b.state = "closed" -> [b EXCEPT !.n = 0]
      [] b.state = "half-open" -> ClosedCB
      [] OTHER -> b

\* RecordSuccess / RecordResult(successStatus).
RecordSuccess(b, k, s) ==
    CASE b.state = "closed" -> [b EXCEPT !.n = 0]
      [] b.state = "half-open" ->
            IF b.n + 1 >= s THEN ClosedCB
            ELSE [b EXCEPT !.n = b.n + 1]
      [] OTHER -> b

\* A variant of TryAcquirePermit that does not wait for the delay.
TryAcquirePermitAtOnce(b, s) ==
    IF b.state = "open" THEN <<s > 0, HalfOpenCB>> ELSE <<TRUE, b>>

\* TryAcquirePermit: <<granted, breaker after the call>>.  An open breaker
\* whose delay has elapsed becomes half-open and grants one of the s permitted
\* executions of its new half-open state; closed grants always.  The balancer
\* asks open breakers only, and a half-open state has a permit left whenever
\* it is asked (s >= 1), so the permit count is not kept.
TryAcquirePermit(b, s) ==
    IF b.state = "open"
    THEN IF b.expired THEN <<s > 0, HalfOpenCB>> ELSE <<FALSE, b>>
    ELSE <<TRUE, b>>

(***************************************************************************)
(* Host (loadbalancer.Host).                                               *)
(***************************************************************************)
\* A variant of IsServerOutage that counts every 5xx status but 504.
IsServerOutageFrom500(st) == st >= StatusInternalServerError /\ st # StatusGatewayTimeout

\* GetLastHTTPErrorStatus: the isServerOutage flag.
IsServerOutage(st) == st >= StatusBadGateway /\ st # StatusGatewayTimeout

\* NewHost: every host is built with a policy built by Build, a current
\* weight of 0 and no stored error status.
NewHostCB(H) == [h \in H |-> BuildCB(failureThreshold, successThreshold)]

Min(a, b) == IF a < b THEN a ELSE b

\* Host.NewRequest (newRequest's authenticator may fail: authFails).
HostNewRequestResult(h, authFails) ==
    IF cb[h].state = "open" /\ IsServerOutage(lastHTTPErrorStatus[h])
    THEN [ret |-> "refused", status |-> lastHTTPErrorStatus[h]]
    ELSE IF authFails THEN [ret |-> "request-and-error", status |-> 0]
    ELSE [ret |-> "request", status |-> 0]

\* NewRequest changes nothing of the host.
HostNewRequest(h, authFails) ==
    /\ HostNewRequestResult(h, authFails).ret \in {"refused", "request", "request-and-error"}
    /\ UNCHANGED <<lbVars, hostVars, cfgVars>>

\* A variant of HostDoEffect that records nothing when no response arrived.
HostDoEffectSilentOnError(h, o) ==
    IF o # NoResponse
    THEN IF o >= StatusInternalServerError
         THEN [store |-> TRUE, rec |-> <<"failure">>]
         ELSE [store |-> FALSE, rec |-> <<"success">>]
    ELSE [store |-> FALSE, rec |-> <<>>]

\* A variant of HostDoEffect that records a success for every response.
HostDoEffectSuccessOnAnyStatus(h, o) ==
    IF o # NoResponse
    THEN IF o >= StatusInternalServerError
         THEN [store |-> TRUE, rec |-> <<"success">>]
         ELSE [store |-> FALSE, rec |-> <<"success">>]
    ELSE [store |-> FALSE, rec |-> <<"failure">>]

\* A variant of HostDoEffect that stores the status of every response.
HostDoEffectStoringAnyStatus(h, o) ==
    IF o # NoResponse
    THEN IF o >= StatusInternalServerError
         THEN [store |-> TRUE, rec |-> <<"failure">>]
         ELSE [store |-> TRUE, rec |-> <<"success">>]
    ELSE [store |-> FALSE, rec |-> <<"failure">>]

\* Host.Do: what it stores and records for the outcome o of httpClient.Do.
HostDoEffect(h, o) ==
    IF o # NoResponse
    THEN IF o >= StatusInternalServerError
         THEN [store |-> TRUE, rec |-> <<"failure">>]
         ELSE [store |-> FALSE, rec |-> <<"success">>]
    ELSE [store |-> FALSE, rec |-> <<"failure">>]

RECURSIVE ApplyRecords(_, _)
ApplyRecords(b, rec) ==
    IF rec = <<>> THEN b
    ELSE ApplyRecords(
            IF Head(rec) = "failure"
            THEN RecordFailure(b, failureThreshold, successThreshold)
            ELSE RecordSuccess(b, failureThreshold, successThreshold),
            Tail(rec))

RECURSIVE StreakOf(_, _)
StreakOf(n, rec) ==
    IF rec = <<>> THEN n
    ELSE StreakOf(IF Head(rec) = "failure" THEN Min(n + 1, MaxFailureThreshold + 1) ELSE 0,
                  Tail(rec))

HostDo(h, o) ==
    /\ lastHTTPErrorStatus' =
          IF HostDoEffect(h, o).store THEN [lastHTTPErrorStatus EXCEPT ![h] = o]
          ELSE lastHTTPErrorStatus
    /\ cb' = [cb EXCEPT ![h] = ApplyRecords(@, HostDoEffect(h, o).rec)]
    /\ UNCHANGED <<lbVars, weight, currentWeight, cfgVars>>

\* Host.CheckHealth: the probe's outcome o is recorded with RecordError (no
\* response) or RecordResult(status); HandleIf makes every status but the
\* success status a failure.
CheckHealthFails(o) == o = NoResponse \/ o # StatusOK

HostCheckHealth(h, o) ==
    /\ cb' = [cb EXCEPT ![h] =
                IF CheckHealthFails(o)
                THEN RecordFailure(@, failureThreshold, successThreshold)
                ELSE RecordSuccess(@, failureThreshold, successThreshold)]
    /\ UNCHANGED <<lbVars, weight, currentWeight, lastHTTPErrorStatus, cfgVars>>

\* Time passes: the delay of an open breaker elapses.
DelayElapses(h) ==
    /\ cb[h].state = "open"
    /\ ~cb[h].expired
    /\ cb' = [cb EXCEPT ![h].expired = TRUE]
    /\ UNCHANGED <<lbVars, weight, currentWeight, lastHTTPErrorStatus, cfgVars>>

(***************************************************************************)
(* WeightedRoundRobin (loadbalancer/roundrobin).                           *)
(***************************************************************************)
RECURSIVE SumWeights(_)
SumWeights(servers) ==
    IF servers = <<>> THEN 0 ELSE weight[Head(servers)] + SumWeights(Tail(servers))

\* Refresh's scan: every weight is compared with the first one.
AllSameWeight(servers) ==
    \A i \in 1..Len(servers) : weight[servers[i]] = weight[servers[1]]

\* A variant of Refresh that leaves the traversal counter of an all-equal
\* list where it was.
RefreshKeepingCursor(servers) ==
    /\ hosts' = servers
    /\ isSameWeight' = AllSameWeight(servers)
    /\ totalWeight' = IF AllSameWeight(servers) THEN totalWeight ELSE SumWeights(servers)
    /\ UNCHANGED <<hostVars, cfgVars>>

Refresh(servers) ==
    /\ hosts' = servers
    /\ isSameWeight' = AllSameWeight(servers)
    /\ totalWeight' = IF AllSameWeight(servers) THEN 0 ELSE SumWeights(servers)
    /\ UNCHANGED <<hostVars, cfgVars>>

\* Refresh(nil) returns at once.
RefreshNil ==
    UNCHANGED <<lbVars, hostVars, cfgVars>>

\* A variant of ScanExhausted that leaves the cursor where it was.
ScanExhaustedKeepingCursor(fallback) ==
    [host |-> IF fallback = 0 THEN hosts[totalWeight + 1] ELSE fallback,
     cb |-> cb,
     totalWeight |-> totalWeight]

\* nextRoundRobin after its loop found no host: the fallback host, or the
\* host at the cursor when there is none, and the cursor moves on by one.
ScanExhausted(fallback) ==
    [host |-> IF fallback = 0 THEN hosts[totalWeight + 1] ELSE fallback,
     cb |-> cb,
     totalWeight |-> (totalWeight + 1) % Len(hosts)]

\* nextRoundRobin: the scan from the cursor; i counts the candidates seen,
\* fallback is the remembered fallback host (0 for nil).
RECURSIVE RoundRobinScan(_, _)
RoundRobinScan(i, fallback) ==
    LET n == Len(hosts) IN
    IF i >= n
    THEN ScanExhausted(fallback)
    ELSE LET currentIndex == (i + totalWeight) % n
             server == hosts[currentIndex + 1]
             permit == TryAcquirePermit(cb[server], successThreshold)
         IN IF cb[server].state = "open" /\ ~permit[1]
            THEN RoundRobinScan(i + 1,
                    IF ~IsServerOutage(lastHTTPErrorStatus[server])
                    THEN server ELSE fallback)
            ELSE [host |-> server,
                  cb |-> IF cb[server].state = "open"
                         THEN [cb EXCEPT ![server] = permit[2]] ELSE cb,
                  totalWeight |-> (currentIndex + 1) % n]

nextRoundRobin == RoundRobinScan(0, 0)

\* A variant of IsHeavier that lets the later host win a tie.
IsHeavierOrEqual(a, b) == a >= b

\* The comparison of nextWeightRoundRobin: a candidate replaces the best host
\* so far only when its current weight is strictly greater.
IsHeavier(a, b) == a > b

\* nextWeightRoundRobin: the loop over the hosts; acc carries the breakers
\* and current weights as the loop has changed them, best, fallbackHost
\* (0 for nil) and total.
RECURSIVE WeightedScan(_, _)
WeightedScan(i, acc) ==
    IF i > Len(hosts) THEN acc
    ELSE LET h == hosts[i]
             permit == TryAcquirePermit(acc.cb[h], successThreshold)
         IN IF acc.cb[h].state = "open" /\ ~permit[1]
            THEN WeightedScan(i + 1,
                    [acc EXCEPT !.fallback =
                        IF ~IsServerOutage(lastHTTPErrorStatus[h]) THEN h ELSE @])
            ELSE LET cb1 == IF acc.cb[h].state = "open"
                            THEN [acc.cb EXCEPT ![h] = permit[2]] ELSE acc.cb
                     cw1 == [acc.cw EXCEPT ![h] = @ + weight[h]]
                 IN WeightedScan(i + 1,
                        [cb |-> cb1, cw |-> cw1,
                         best |-> IF acc.best = 0 \/ IsHeavier(cw1[h], cw1[acc.best])
                                  THEN h ELSE acc.best,
                         fallback |-> acc.fallback,
                         total |-> acc.total + weight[h]])

\* A variant of nextWeightRoundRobin that does not reset the winner's weight.
nextWeightRoundRobinNoReset ==
    LET acc == WeightedScan(1, [cb |-> cb, cw |-> currentWeight, best |-> 0,
                                fallback |-> 0, total |-> 0])
    IN IF acc.best # 0
       THEN [host |-> acc.best, cb |-> acc.cb, cw |-> acc.cw]
       ELSE [host |-> IF acc.fallback = 0 THEN hosts[1] ELSE acc.fallback,
             cb |-> acc.cb, cw |-> acc.cw]

\* A variant of nextWeightRoundRobin without the fallback to the first host.
nextWeightRoundRobinNoFallback ==
    LET acc == WeightedScan(1, [cb |-> cb, cw |-> currentWeight, best |-> 0,
                                fallback |-> 0, total |-> 0])
    IN IF acc.best # 0
       THEN [host |-> acc.best, cb |-> acc.cb,
             cw |-> [acc.cw EXCEPT ![acc.best] = @ - acc.total]]
       ELSE [host |-> acc.fallback, cb |-> acc.cb, cw |-> acc.cw]

nextWeightRoundRobin ==
    LET acc == WeightedScan(1, [cb |-> cb, cw |-> currentWeight, best |-> 0,
                                fallback |-> 0, total |-> 0])
    IN IF acc.best # 0
       THEN [host |-> acc.best, cb |-> acc.cb,
             cw |-> [acc.cw EXCEPT ![acc.best] = @ - acc.total]]
       ELSE [host |-> IF acc.fallback = 0 THEN hosts[1] ELSE acc.fallback,
             cb |-> acc.cb, cw |-> acc.cw]

\* Next: the result (host 0 and err for ErrNoActiveHost) and the state it leaves.
NextResult ==
    CASE Len(hosts) = 0 ->
            [host |-> 0, err |-> TRUE, cb |-> cb, cw |-> currentWeight,
             totalWeight |-> totalWeight]
      [] Len(hosts) = 1 ->
            [host |-> hosts[1], err |-> FALSE, cb |-> cb, cw |-> currentWeight,
             totalWeight |-> totalWeight]
      [] OTHER ->
            IF isSameWeight
            THEN [host |-> nextRoundRobin.host, err |-> FALSE,
                  cb |-> nextRoundRobin.cb, cw |-> currentWeight,
                  totalWeight |-> nextRoundRobin.totalWeight]
            ELSE [host |-> nextWeightRoundRobin.host, err |-> FALSE,
                  cb |-> nextWeightRoundRobin.cb, cw |-> nextWeightRoundRobin.cw,
                  totalWeight |-> totalWeight]

LBNext ==
    /\ \A h \in DOMAIN currentWeight :
            NextResult.cw[h] \in -MaxCurrentWeight..MaxCurrentWeight
    /\ cb' = NextResult.cb
    /\ currentWeight' = NextResult.cw
    /\ totalWeight' = NextResult.totalWeight
    /\ UNCHANGED <<hosts, isSameWeight, weight, lastHTTPErrorStatus, cfgVars>>

(***************************************************************************)
(* The request executor: Request.Execute, executeWithRetries, doRequest    *)
(* and the retry policy built by HTTPRetryConfig.ToRetryPolicy.            *)
(*                                                                         *)
(* A response is a record: status (0 for a nil *http.Response) and body,   *)
(* one of "none" (nil or http.NoBody), "open", "closed", and, after the    *)
(* debug branch of Execute has replaced it by an in-memory copy,           *)
(* "copy-of-open" and "copy-of-closed".  An error is a record: kind        *)
(* ("nil" for a nil error), the status of a problem-details error, and     *)
(* the attempt that produced it.                                           *)
(***************************************************************************)
NilResp == [status |-> 0, body |-> "none"]

\* The body reader of a request.  kind: "nil"; "reader", a bytes.Reader or
\* strings.Reader (io.ReadSeeker, no Close); "file", an *os.File
\* (io.ReadSeeker and io.Closer); "stream", any other io.Reader.  pos is the
\* number of bytes read so far out of BodyLen; closed is set by Close.
NilBody == [kind |-> "nil", pos |-> 0, closed |-> FALSE]
RequestBodies == [kind : {"nil", "reader", "file", "stream"}, pos : {0}, closed : {FALSE}]
NoErr == [kind |-> "nil", status |-> 0, attempt |-> 0]
Err(kind, status, n) == [kind |-> kind, status |-> status, attempt |-> n]

\* The statuses a server answers with.
AttemptStatuses == {StatusOK, StatusBadRequest, StatusTooManyRequests,
                    StatusInternalServerError, StatusNotImplemented}

\* What one doRequest call meets: the step that fails, or the response.
\*   getter      clientGetter.HTTPClient() fails
\*   create-nil  client.NewRequest returns (nil, err)
\*   create      client.NewRequest returns a request and an error
\*   auth        applyAuth fails
\*   transport, unsupported, canceled, deadline   client.Do fails:
\*               unsupported stands for the non-retryable signatures
\*   response    client.Do returns a response
AttemptOutcomes ==
    [kind : {"getter", "create-nil", "create", "auth", "transport", "unsupported",
             "canceled", "deadline"},
     status : {0}, hasBody : {FALSE}, decompressFails : {FALSE}]
    \cup
    {o \in [kind : {"response"}, status : AttemptStatuses, hasBody : BOOLEAN,
            decompressFails : BOOLEAN] : o.decompressFails => o.hasBody}

\* The retry policies of a request: none, or maxAttempts (0: no limit) and
\* the configured httpStatus list.
NoRetry == [set |-> FALSE, maxAttempts |-> 0, httpStatus |-> {}]
RetryPolicies ==
    {NoRetry} \cup
    [set : {TRUE}, maxAttempts : 0..MaxAttempts, httpStatus : {{}, {StatusBadRequest}}]

\* A variant of doRequest that leaves the body of a response of status >= 400
\* open.
doRequestLeavingBodyOpen(o, n) ==
    CASE o.kind = "create-nil" ->
            [resp |-> NilResp, err |-> NoErr, panic |-> TRUE]
      [] o.kind \in {"getter", "create", "auth", "transport", "unsupported",
                     "canceled", "deadline"} ->
            [resp |-> NilResp, err |-> Err(o.kind, 0, n), panic |-> FALSE]
      [] OTHER ->
            IF ~o.hasBody
            THEN [resp |-> [status |-> o.status, body |-> "none"],
                  err |-> IF o.status >= StatusBadRequest
                          THEN Err("http", o.status, n) ELSE NoErr,
                  panic |-> FALSE]
            ELSE IF o.decompressFails
            THEN [resp |-> [status |-> o.status, body |-> "closed"],
                  err |-> Err("decompress", 0, n), panic |-> FALSE]
            ELSE IF o.status >= StatusBadRequest
            THEN [resp |-> [status |-> o.status, body |-> "open"],
                  err |-> Err("http", o.status, n), panic |-> FALSE]
            ELSE [resp |-> [status |-> o.status, body |-> "open"],
                  err |-> NoErr, panic |-> FALSE]

\* doRequest, call number n of the Execute call: the response and the error
\* it returns, or the panic on reading req.URL of a nil request.
doRequest(o, n) ==
    CASE o.kind = "create-nil" ->
            [resp |-> NilResp, err |-> NoErr, panic |-> TRUE]
      [] o.kind \in {"getter", "create", "auth", "transport", "unsupported",
                     "canceled", "deadline"} ->
            [resp |-> NilResp, err |-> Err(o.kind, 0, n), panic |-> FALSE]
      [] OTHER ->
            IF ~o.hasBody
            THEN [resp |-> [status |-> o.status, body |-> "none"],
                  err |-> IF o.status >= StatusBadRequest
                          THEN Err("http", o.status, n) ELSE NoErr,
                  panic |-> FALSE]
            ELSE IF o.decompressFails
            THEN [resp |-> [status |-> o.status, body |-> "closed"],
                  err |-> Err("decompress", 0, n), panic |-> FALSE]
            ELSE IF o.status >= StatusBadRequest
            THEN [resp |-> [status |-> o.status, body |-> "closed"],
                  err |-> Err("http", o.status, n), panic |-> FALSE]
            ELSE [resp |-> [status |-> o.status, body |-> "open"],
                  err |-> NoErr, panic |-> FALSE]

\* A variant of ActiveRequestsAdds whose authentication failure returns
\* without the decrement.
ActiveRequestsAddsLeakOnAuth(o) ==
    IF o.kind \in {"getter", "create-nil", "create"} THEN <<>>
    ELSE IF o.kind = "auth" THEN <<1>>
    ELSE <<1, -1>>

\* The Adds of one doRequest call on http.client.active_requests, in order:
\* none when no request was built, else +1 and, deferred to the return of
\* doRequest, -1.  Both Adds carry activeRequestsAttrSet, so one counter is
\* modelled.
ActiveRequestsAdds(o) ==
    IF o.kind \in {"getter", "create-nil", "create"} THEN <<>>
    ELSE <<1, -1>>

\* The counter and its history after a sequence of Adds.
RECURSIVE RunAdds(_, _, _)
RunAdds(v, m, adds) ==
    IF adds = <<>> THEN [value |-> v, metric |-> m]
    ELSE LET w == v + Head(adds)
         IN RunAdds(w,
                    [adds |-> m.adds + (IF Head(adds) > 0 THEN 1 ELSE 0),
                     subs |-> m.subs + (IF Head(adds) < 0 THEN 1 ELSE 0),
                     low |-> IF w < m.low THEN w ELSE m.low],
                    Tail(adds))

\* The kinds of error retryHandleFunc tells apart, besides those of
\* doRequest.  By message: "unsupported" (unsupported protocol scheme),
\* "untrusted" (certificate is not trusted), "redirects" (stopped after N
\* redirects).  By type, a *url.Error whose Err is: "unknown-authority", an
\* x509.UnknownAuthorityError value; "unknown-authority-tls", a
\* *tls.CertificateVerificationError wrapping one; "refused", any other.
MessageIsNonRetryable(kind) == kind \in {"unsupported", "untrusted", "redirects"}
IsURLError(kind) == kind \in {"unknown-authority", "unknown-authority-tls", "refused",
                              "transport"}

\* The chain errors.Is walks from urlError.Err: each error with its type and
\* what it is, a value or a pointer to some variable.
UnwrapChain(kind) ==
    CASE kind = "unknown-authority" ->
            <<[type |-> "x509.UnknownAuthorityError", is |-> "value"]>>
      [] kind = "unknown-authority-tls" ->
            <<[type |-> "tls.CertificateVerificationError", is |-> "pointer to the error"],
              [type |-> "x509.UnknownAuthorityError", is |-> "value"]>>
      [] OTHER -> <<[type |-> "net.OpError", is |-> "pointer to the error"]>>

\* errors.Is(err, target) for types without an Is method: some error of the
\* chain equals the target.
ErrorsIs(chain, target) == \E i \in 1..Len(chain) : chain[i] = target

\* &uae, the target retryHandleFunc gives errors.Is: a pointer to its local
\* variable uae.
UnknownAuthorityTarget == [type |-> "x509.UnknownAuthorityError", is |-> "pointer to uae"]

\* retryHandleFunc(httpStatus)(resp, err).
retryHandleFunc(httpStatus, resp, err) ==
    IF err.kind # "nil"
    THEN IF MessageIsNonRetryable(err.kind) THEN FALSE
         ELSE IF IsURLError(err.kind)
                 /\ ErrorsIs(UnwrapChain(err.kind), UnknownAuthorityTarget)
         THEN FALSE
         ELSE TRUE
    ELSE IF resp.status # 0
    THEN \/ resp.status \in httpStatus
         \/ resp.status = StatusTooManyRequests
         \/ resp.status >= StatusInternalServerError /\ resp.status # StatusNotImplemented
    ELSE FALSE

\* AbortOnErrors(context.Canceled, context.DeadlineExceeded).
IsAbortable(err) == err.kind \in {"canceled", "deadline"}

\* One turn of the retry policy executor on what the operation of
\* executeWithRetries returned: the operation returns doRequest's response
\* and a nil error.
RetryTurn(d) ==
    LET opErr == NoErr
        failure == retryHandleFunc(retry.httpStatus, d.resp, opErr)
        fa == IF failure THEN failedAttempts + 1 ELSE failedAttempts
        maxRetries == retry.maxAttempts - 1
        retriesExceeded == failure /\ maxRetries # -1 /\ fa > maxRetries
        abort == failure /\ IsAbortable(opErr)
    IN [failedAttempts |-> fa,
        done |-> ~failure \/ retriesExceeded \/ abort,
        resp |-> IF retriesExceeded THEN NilResp ELSE d.resp,
        err |-> IF retriesExceeded
                THEN Err("exceeded", d.resp.status, dispatched + 1)
                ELSE opErr]

\* The end of Execute, from the response and error of doRequest or of
\* executeWithRetries.  read is what reading the body does in the debug
\* branch: "skip" for a content type that is not logged, "fail", "ok".
\* Reading http.NoBody yields nothing and cannot fail.
ExecuteTail(resp, err, read) ==
    LET reads == resp.status # 0 /\ isDebug /\ resp.body # "none" /\ read # "skip"
        logged == IF reads
                  THEN [resp EXCEPT !.body = IF @ = "closed" THEN "copy-of-closed"
                                             ELSE "copy-of-open"]
                  ELSE resp
    IN IF reads /\ read = "fail"
       THEN [pc |-> "returned", ret |-> [resp |-> NilResp, err |-> Err("read", 0, dispatched + 1)]]
       ELSE IF err.kind # "nil"
       THEN [pc |-> "returned", ret |-> [resp |-> logged, err |-> err]]
       ELSE IF resp.status = 0
       THEN [pc |-> "panicked", ret |-> ret]
       ELSE [pc |-> "returned", ret |-> [resp |-> logged, err |-> NoErr]]

\* executeWithRetries before the first attempt: a body that is no
\* io.ReadSeeker is read into a bytes.Reader.
PrepareBody(b) ==
    IF b.kind = "stream" THEN [kind |-> "reader", pos |-> 0, closed |-> FALSE] ELSE b

\* The operation of executeWithRetries: bodySeeker.Seek(0, io.SeekStart), its
\* error dropped.  Seek fails on a closed file and leaves it as it is.
SeekStart(b) ==
    IF b.kind \in {"reader", "file"} /\ ~b.closed THEN [b EXCEPT !.pos = 0] ELSE b

\* The bytes of the body from position pos on.
BodyFrom(pos) == [i \in 1..(BodyLen - pos) |-> pos + i]

\* client.Do with body b: http.NewRequestWithContext keeps a body that is an
\* io.ReadCloser as the request's Body and wraps any other in a NopCloser;
\* the transport reads the Body to its end and closes it.  given is what the
\* request has to send: nothing, the bytes left in the body, or nothing
\* readable when the body is a closed file.
SendBody(b) ==
    IF b.kind = "nil" THEN [given |-> [ok |-> TRUE, bytes |-> <<>>], body |-> b]
    ELSE IF b.closed THEN [given |-> [ok |-> FALSE, bytes |-> <<>>], body |-> b]
    ELSE [given |-> [ok |-> TRUE, bytes |-> BodyFrom(b.pos)],
          body |-> [b EXCEPT !.pos = BodyLen, !.closed = (b.kind = "file")]]

\* The sample the deferred function of Execute records on
\* http.client.request.duration: requestDurationAttrs is commonAttrs (the
\* method, and the server when the URL names it) plus, for a response, its
\* status code and protocol version.
DurationSample(resp) ==
    IF resp.status # 0
    THEN [attrs |-> {"http.request.method", "http.response.status_code",
                     "network.protocol.version"},
          status |-> resp.status]
    ELSE [attrs |-> {"http.request.method"}, status |-> 0]

\* A variant of AttemptSamples recording one sample for each attempt.
AttemptSamplesOnePerAttempt(resp) == <<DurationSample(resp)>>

\* The samples doRequest records on http.client.request.duration: none.
AttemptSamples(resp) == <<>>

\* Execute up to the first attempt, on a request whose body is b.  pre is
\* what precedes the attempt: "invalid" for a missing method, an unreadable
\* debug body or an invalid URL; "compress" for a failing compression;
\* "body" for a body executeWithRetries cannot read into its buffer.
ExecuteStart(pre, b) ==
    /\ pc = "idle"
    /\ pre = "body" => (retry.set /\ b.kind = "stream")
    /\ pre = "compress" => b.kind # "nil"
    /\ executions' = executions + 1
    /\ reqBody' = IF pre = "ok" /\ retry.set THEN PrepareBody(b) ELSE b
    /\ IF pre = "ok"
       THEN pc' = "running" /\ ret' = ret /\ durations' = durations
       ELSE /\ pc' = "returned"
            /\ ret' = [resp |-> NilResp, err |-> Err(pre, 0, 0)]
            /\ durations' = IF pre = "invalid" THEN durations
                            ELSE Append(durations, DurationSample(NilResp))
    /\ UNCHANGED <<retry, isDebug, retryAttempts, failedAttempts, dispatched, last,
                   waitLeft, cancelled, activeRequests, metric, sent>>
    /\ UNCHANGED <<lbVars, hostVars, cfgVars>>

\* One attempt: doRequest, then either the end of Execute (no retry policy,
\* or the policy is done) or the start of the delay before the next attempt.
\* A done context makes client.Do fail; a client.Do that fails with the
\* context's error is the context ending while the attempt is in flight.
Attempt(o, read, delay) ==
    /\ pc = "running"
    /\ dispatched < MaxDispatch
    /\ cancelled => o.kind \in {"getter", "create-nil", "create", "auth", "canceled"}
    /\ LET d == doRequest(o, dispatched + 1)
           t == RetryTurn(d)
           end == IF retry.set THEN ExecuteTail(t.resp, t.err, read)
                  ELSE ExecuteTail(d.resp, d.err, read)
           counted == RunAdds(activeRequests, metric, ActiveRequestsAdds(o))
           seeked == IF retry.set THEN SeekStart(reqBody) ELSE reqBody
           does == o.kind \notin {"getter", "create-nil", "create", "auth"}
           sending == SendBody(seeked)
           seen == IF retry.set THEN t.resp ELSE d.resp
           ends == d.panic \/ ~retry.set \/ t.done
       IN /\ (does /\ ~sending.given.ok) => o.kind # "response"
          /\ reqBody' = IF does THEN sending.body ELSE seeked
          /\ sent' = IF does THEN Append(sent, sending.given) ELSE sent
          /\ durations' = durations \o AttemptSamples(d.resp) \o
                          (IF ends THEN <<DurationSample(IF d.panic THEN NilResp ELSE seen)>>
                           ELSE <<>>)
          /\ dispatched' = dispatched + 1
          /\ activeRequests' = counted.value
          /\ metric' = counted.metric
          /\ cancelled' = (cancelled \/ o.kind \in {"canceled", "deadline"})
          /\ IF d.panic
             THEN /\ pc' = "panicked"
                  /\ UNCHANGED <<last, retryAttempts, failedAttempts, waitLeft, ret>>
             ELSE /\ last' = [resp |-> d.resp, err |-> d.err]
                  /\ retryAttempts' = IF retry.set /\ d.err.kind # "nil"
                                      THEN retryAttempts + 1 ELSE retryAttempts
                  /\ failedAttempts' = IF retry.set THEN t.failedAttempts
                                       ELSE failedAttempts
                  /\ IF retry.set /\ ~t.done
                     THEN pc' = "waiting" /\ waitLeft' = delay /\ ret' = ret
                     ELSE pc' = end.pc /\ ret' = end.ret /\ waitLeft' = waitLeft
    /\ UNCHANGED <<retry, isDebug, executions>>
    /\ UNCHANGED <<lbVars, hostVars, cfgVars>>

\* The delay between two attempts passes: the executor of the policy was
\* given no context, so its timer is all it waits for.
WaitTick ==
    /\ pc = "waiting"
    /\ waitLeft' = waitLeft - 1
    /\ pc' = IF waitLeft = 1 THEN "running" ELSE "waiting"
    /\ UNCHANGED <<retry, isDebug, retryAttempts, failedAttempts, dispatched, last,
                   cancelled, ret, activeRequests, metric, reqBody, sent, executions,
                   durations>>
    /\ UNCHANGED <<lbVars, hostVars, cfgVars>>

\* The caller cancels the context, or its deadline passes, during the delay.
Cancel ==
    /\ pc = "waiting"
    /\ ~cancelled
    /\ cancelled' = TRUE
    /\ UNCHANGED <<retry, isDebug, pc, retryAttempts, failedAttempts, dispatched, last,
                   waitLeft, ret, activeRequests, metric, reqBody, sent, executions,
                   durations>>
    /\ UNCHANGED <<lbVars, hostVars, cfgVars>>

\* No Execute call has started.
NoExecution ==
    /\ pc = "idle"
    /\ retryAttempts = 0
    /\ failedAttempts = 0
    /\ dispatched = 0
    /\ last = [resp |-> NilResp, err |-> NoErr]
    /\ waitLeft = 0
    /\ cancelled = FALSE
    /\ ret = [resp |-> NilResp, err |-> NoErr]
    /\ activeRequests = 0
    /\ metric = [adds |-> 0, subs |-> 0, low |-> 0]
    /\ reqBody = NilBody
    /\ sent = <<>>
    /\ executions = 0
    /\ durations = <<>>

\* No Response object is in use.
NoResponseObject ==
    /\ response = [body |-> "nil", isBodyRead |-> FALSE, closed |-> FALSE]
    /\ bodyLog = [closes |-> 0, handed |-> 0, reads |-> 0, calls |-> 0]

\* The connections a client may dial.
Conns == {1, 2, 3}

\* A connection not dialed yet.
NoConn == [state |-> "none", closes |-> 0]

\* No tracer has been started.
NoSpan == [mode |-> "none", totalTime |-> 0, ends |-> 0, metricAttrs |-> "none",
           gotConn |-> FALSE, gotFirstResponseByte |-> FALSE, calls |-> 0]

\* No attempt is traced and no connection has been dialed.
NoTelemetry ==
    /\ span = NoSpan
    /\ serverDuration = <<>>
    /\ conns = [c \in Conns |-> NoConn]
    /\ openConnections = 0

\* No process is running on the balancer: no lock held, no ticker.
NoProcesses ==
    /\ lock = 0
    /\ tick = 0
    /\ timers = <<>>
    /\ pending = {}
    /\ ctxDone = {}
    /\ proc = <<>>
    /\ healthCheckInterval = 0

(***************************************************************************)
(* The load balancer and its hosts under arbitrary traffic.                *)
(***************************************************************************)
RECURSIVE SeqsOver(_, _)
SeqsOver(S, n) ==
    IF n = 0 THEN {<<>>}
    ELSE SeqsOver(S, n - 1) \cup
         {Append(q, x) : q \in SeqsOver(S, n - 1), x \in S}

\* The host lists given to NewWeightedRoundRobin and Refresh: no host twice.
HostLists(H) ==
    {q \in SeqsOver(H, Cardinality(H)) :
        \A i, j \in 1..Len(q) : i # j => q[i] # q[j]}

NoEvent == [op |-> "none", host |-> 0, arg |-> 0, ret |-> "", rec |-> <<>>, pre |-> 0]

\* The state after NewHost for every host of H and NewWeightedRoundRobin(servers).
Constructed(H, servers) ==
    /\ currentWeight = [h \in H |-> 0]
    /\ lastHTTPErrorStatus = [h \in H |-> 0]
    /\ cb = NewHostCB(H)
    /\ hosts = servers
    /\ isSameWeight = AllSameWeight(servers)
    /\ totalWeight = IF AllSameWeight(servers) THEN 0 ELSE SumWeights(servers)
    /\ streak = [h \in H |-> 0]
    /\ picks = <<>>
    /\ ev = NoEvent
    /\ recorded = [h \in H |-> 0]
    /\ closes = [h \in H |-> 0]

Init ==
    /\ failureThreshold \in 1..MaxFailureThreshold
    /\ successThreshold \in 1..MaxSuccessThreshold
    /\ weight \in [HostIds -> 1..MaxWeight]
    /\ \E servers \in HostLists(HostIds) : Constructed(HostIds, servers)
    /\ retry = NoRetry
    /\ isDebug = FALSE
    /\ NoExecution
    /\ NoResponseObject
    /\ NoTelemetry
    /\ NoProcesses

Next ==
    \/ LBNext /\ UNCHANGED <<histVars, execVars, concVars, respVars, telemetryVars>>
    \/ \E servers \in HostLists(HostIds) : Refresh(servers) /\ UNCHANGED <<histVars, execVars, concVars, respVars, telemetryVars>>
    \/ RefreshNil /\ UNCHANGED <<histVars, execVars, concVars, respVars, telemetryVars>>
    \/ \E h \in HostIds, authFails \in BOOLEAN :
            HostNewRequest(h, authFails) /\ UNCHANGED <<histVars, execVars, concVars, respVars, telemetryVars>>
    \/ \E h \in HostIds, o \in DoOutcomes : HostDo(h, o) /\ UNCHANGED <<histVars, execVars, concVars, respVars, telemetryVars>>
    \/ \E h \in HostIds, o \in DoOutcomes : HostCheckHealth(h, o) /\ UNCHANGED <<histVars, execVars, concVars, respVars, telemetryVars>>
    \/ \E h \in HostIds : DelayElapses(h) /\ UNCHANGED <<histVars, execVars, concVars, respVars, telemetryVars>>

Spec == Init /\ [][Next]_vars

(***************************************************************************)
(* One host under arbitrary traffic, with the history of what was recorded *)
(* on its breaker.  TryAcquirePermit is the call the balancer's scan makes *)
(* on an open breaker.                                                     *)
(***************************************************************************)
SoloHosts == {1}

HostPermit(h) ==
    /\ cb[h].state = "open"
    /\ cb' = [cb EXCEPT ![h] = TryAcquirePermit(@, successThreshold)[2]]
    /\ UNCHANGED <<lbVars, weight, currentWeight, lastHTTPErrorStatus, cfgVars>>

StreakAfter(h, failed) ==
    [streak EXCEPT ![h] = IF failed THEN Min(@ + 1, MaxFailureThreshold + 1) ELSE 0]

InitHost ==
    /\ failureThreshold \in 1..MaxFailureThreshold
    /\ successThreshold \in 1..MaxSuccessThreshold
    /\ weight = [h \in SoloHosts |-> 1]
    /\ Constructed(SoloHosts, <<1>>)
    /\ retry = NoRetry
    /\ isDebug = FALSE
    /\ NoExecution
    /\ NoResponseObject
    /\ NoTelemetry
    /\ NoProcesses

NextHost ==
    \/ \E h \in SoloHosts, authFails \in BOOLEAN :
            /\ HostNewRequest(h, authFails)
            /\ ev' = [op |-> "NewRequest", host |-> h,
                      arg |-> HostNewRequestResult(h, authFails).status,
                      ret |-> HostNewRequestResult(h, authFails).ret,
                      rec |-> <<>>, pre |-> lastHTTPErrorStatus[h]]
            /\ UNCHANGED <<streak, picks, recorded, execVars, concVars, respVars, telemetryVars>>
    \/ \E h \in SoloHosts, o \in DoOutcomes :
            /\ HostDo(h, o)
            /\ ev' = [op |-> "Do", host |-> h, arg |-> o, ret |-> "",
                      rec |-> HostDoEffect(h, o).rec, pre |-> lastHTTPErrorStatus[h]]
            /\ streak' = [streak EXCEPT ![h] = StreakOf(@, HostDoEffect(h, o).rec)]
            /\ recorded' = [recorded EXCEPT
                               ![h] = Min(@ + Len(HostDoEffect(h, o).rec), 2)]
            /\ UNCHANGED <<picks, execVars, concVars, respVars, telemetryVars>>
    \/ \E h \in SoloHosts, o \in DoOutcomes :
            /\ HostCheckHealth(h, o)
            /\ ev' = [op |-> "CheckHealth", host |-> h, arg |-> o, ret |-> "",
                      rec |-> <<>>, pre |-> lastHTTPErrorStatus[h]]
            /\ streak' = StreakAfter(h, CheckHealthFails(o))
            /\ recorded' = [recorded EXCEPT ![h] = Min(@ + 1, 2)]
            /\ UNCHANGED <<picks, execVars, concVars, respVars, telemetryVars>>
    \/ \E h \in SoloHosts :
            /\ DelayElapses(h)
            /\ ev' = [NoEvent EXCEPT !.op = "DelayElapses", !.host = h,
                                     !.pre = lastHTTPErrorStatus[h]]
            /\ UNCHANGED <<streak, picks, recorded, execVars, concVars, respVars, telemetryVars>>
    \/ \E h \in SoloHosts :
            /\ HostPermit(h)
            /\ ev' = [NoEvent EXCEPT !.op = "TryAcquirePermit", !.host = h,
                                     !.pre = lastHTTPErrorStatus[h]]
            /\ UNCHANGED <<streak, picks, recorded, execVars, concVars, respVars, telemetryVars>>

SpecHost == InitHost /\ [][NextHost]_vars

(***************************************************************************)
(* Weighted selection over healthy hosts: fresh hosts of any weights, no   *)
(* failure ever recorded, with the history of the hosts Next returned.     *)
(***************************************************************************)
TrioHosts == {1, 2, 3}

InitWRR ==
    /\ failureThreshold = 1
    /\ successThreshold = 1
    /\ weight \in [TrioHosts -> 1..MaxWeight]
    /\ \E servers \in HostLists(TrioHosts) : Constructed(TrioHosts, servers)
    /\ retry = NoRetry
    /\ isDebug = FALSE
    /\ NoExecution
    /\ NoResponseObject
    /\ NoTelemetry
    /\ NoProcesses

NextWRR ==
    \/ /\ Len(picks) < MaxPicks
       /\ LBNext
       /\ picks' = IF NextResult.err THEN picks ELSE Append(picks, NextResult.host)
       /\ UNCHANGED <<streak, ev, recorded, execVars, concVars, respVars, telemetryVars>>
    \/ \E h \in TrioHosts : HostDo(h, StatusOK) /\ UNCHANGED <<histVars, execVars, concVars, respVars, telemetryVars>>

SpecWRR == InitWRR /\ [][NextWRR]_vars

(***************************************************************************)
(* Sequential requests through a balancer of three hosts whose host 3      *)
(* always answers 502 while the others answer 200 (the integration tests   *)
(* of the balancer, for any weights and any order of the hosts): each      *)
(* request is Next, then NewRequest and Do on the host returned.  No delay *)
(* elapses during the requests.                                            *)
(***************************************************************************)
TripAnswer(h) == IF h = 3 THEN StatusBadGateway ELSE StatusOK

TripNext ==
    /\ ev.op # "Next"
    /\ Len(picks) < Requests
    /\ Len(hosts) >= 1
    /\ LBNext
    /\ picks' = Append(picks, NextResult.host)
    /\ ev' = [NoEvent EXCEPT !.op = "Next", !.host = NextResult.host]
    /\ UNCHANGED <<streak, recorded, execVars, concVars, respVars, telemetryVars>>

TripSend ==
    /\ ev.op = "Next"
    /\ LET h == ev.host
           r == HostNewRequestResult(h, FALSE)
       IN /\ IF r.ret = "refused"
             THEN UNCHANGED <<lbVars, hostVars, cfgVars>>
             ELSE HostDo(h, TripAnswer(h))
          /\ ev' = [op |-> "Do", host |-> h, arg |-> TripAnswer(h), ret |-> r.ret,
                    rec |-> IF r.ret = "refused" THEN <<>>
                            ELSE HostDoEffect(h, TripAnswer(h)).rec,
                    pre |-> lastHTTPErrorStatus[h]]
    /\ UNCHANGED <<streak, picks, recorded, execVars, concVars, respVars, telemetryVars>>

InitTrip ==
    /\ failureThreshold = 1
    /\ successThreshold = 1
    /\ weight \in [TrioHosts -> 1..MaxWeight]
    /\ \E servers \in HostLists(TrioHosts) : Constructed(TrioHosts, servers)
    /\ retry = NoRetry
    /\ isDebug = FALSE
    /\ NoExecution
    /\ NoResponseObject
    /\ NoTelemetry
    /\ NoProcesses

NextTrip == TripNext \/ TripSend

SpecTrip == InitTrip /\ [][NextTrip]_vars

(***************************************************************************)
(* One Execute call of a request with any retry policy, against a server   *)
(* answering anything.                                                     *)
(***************************************************************************)
InitExec ==
    /\ failureThreshold = 1
    /\ successThreshold = 1
    /\ weight = [h \in SoloHosts |-> 1]
    /\ Constructed(SoloHosts, <<1>>)
    /\ retry \in RetryPolicies
    /\ isDebug \in BOOLEAN
    /\ NoExecution
    /\ NoResponseObject
    /\ NoTelemetry
    /\ NoProcesses

NextExec ==
    \/ \E pre \in {"ok", "invalid", "compress", "body"}, b \in RequestBodies :
            ExecuteStart(pre, b) /\ UNCHANGED <<histVars, concVars, respVars, telemetryVars>>
    \/ \E o \in AttemptOutcomes, read \in {"skip", "fail", "ok"}, delay \in 1..MaxDelay :
            Attempt(o, read, delay) /\ UNCHANGED <<histVars, concVars, respVars, telemetryVars>>
    \/ WaitTick /\ UNCHANGED <<histVars, concVars, respVars, telemetryVars>>
    \/ Cancel /\ UNCHANGED <<histVars, concVars, respVars, telemetryVars>>

SpecExec == InitExec /\ [][NextExec]_vars

(***************************************************************************)
(* The retry policy built by ToRetryPolicy, applied to one attempt's       *)
(* result: HandleIf(retryHandleFunc) decides whether the attempt failed,   *)
(* and the delay before the next attempt is computed from the configured   *)
(* delay, WithDelayFunc(failsafehttp.DelayFunc) and the jitter.  Durations *)
(* are in seconds.                                                         *)
(***************************************************************************)
PolicyStatuses == {0, StatusOK, StatusBadRequest, StatusTooManyRequests,
                   StatusInternalServerError, StatusNotImplemented,
                   StatusServiceUnavailable, StatusNetworkConnectTimeout,
                   StatusBeyondServerErrors}
PolicyErrors == {"nil", "unsupported", "untrusted", "redirects", "unknown-authority",
                 "unknown-authority-tls", "refused"}

\* failsafehttp.DelayFunc: the Retry-After header of a 429 or 503 response,
\* in seconds; -1 when there is none to use.  retryAfter is the header's
\* value, -1 for a response without the header.
DelayFunc(resp) ==
    IF resp.status \in {StatusTooManyRequests, StatusServiceUnavailable}
       /\ resp.retryAfter >= 0
    THEN resp.retryAfter
    ELSE -1

\* The retry policy executor's getDelay: the delay of the DelayFunc or,
\* without one, the configured (fixed or backoff) delay; a delay that is not
\* zero is then moved by the jitter, rnd being the random part drawn from
\* -jitter..jitter; a negative delay is no wait.
getDelay(resp, configured, rnd) ==
    LET computed == DelayFunc(resp)
        delay == IF computed = -1 THEN configured ELSE computed
        jittered == IF delay # 0 THEN delay + rnd ELSE delay
    IN IF jittered < 0 THEN 0 ELSE jittered

\* The policy is asked whether a result is a failure to retry.
PolicyHandles ==
    /\ ev.op = "none"
    /\ ev' = [NoEvent EXCEPT !.op = "retryHandleFunc",
                             !.ret = retryHandleFunc(retry.httpStatus, last.resp, last.err)]
    /\ UNCHANGED <<lbVars, hostVars, cfgVars, streak, picks, recorded, execVars, concVars,
                   respVars, telemetryVars>>

\* The policy computes the delay before the next attempt, for a result it
\* retries.
PolicyDelays(configured, jitter, rnd) ==
    /\ ev.op = "none"
    /\ rnd \in -jitter..jitter
    /\ retryHandleFunc(retry.httpStatus, last.resp, last.err)
    /\ ev' = [NoEvent EXCEPT !.op = "getDelay",
                             !.arg = [configured |-> configured, jitter |-> jitter],
                             !.ret = getDelay(last.resp, configured, rnd)]
    /\ UNCHANGED <<lbVars, hostVars, cfgVars, streak, picks, recorded, execVars, concVars,
                   respVars, telemetryVars>>

InitPolicy ==
    /\ failureThreshold = 1
    /\ successThreshold = 1
    /\ weight = [h \in SoloHosts |-> 1]
    /\ Constructed(SoloHosts, <<1>>)
    /\ retry \in {r \in RetryPolicies : r.set /\ r.maxAttempts = MaxAttempts}
    /\ isDebug = FALSE
    /\ pc = "idle"
    /\ retryAttempts = 0
    /\ failedAttempts = 0
    /\ dispatched = 0
    /\ \E st \in PolicyStatuses, ra \in -1..MaxRetryAfter, k \in PolicyErrors :
          /\ st = 0 => ra = -1
          /\ last = [resp |-> [status |-> st, body |-> "none", retryAfter |-> ra],
                     err |-> Err(k, 0, IF k = "nil" THEN 0 ELSE 1)]
    /\ waitLeft = 0
    /\ cancelled = FALSE
    /\ ret = [resp |-> NilResp, err |-> NoErr]
    /\ activeRequests = 0
    /\ metric = [adds |-> 0, subs |-> 0, low |-> 0]
    /\ reqBody = NilBody
    /\ sent = <<>>
    /\ executions = 0
    /\ durations = <<>>
    /\ NoResponseObject
    /\ NoTelemetry
    /\ NoProcesses

NextPolicy ==
    \/ PolicyHandles
    \/ \E configured \in 0..MaxDelay, jitter \in 0..MaxJitter, rnd \in -MaxJitter..MaxJitter :
            PolicyDelays(configured, jitter, rnd)

SpecPolicy == InitPolicy /\ [][NextPolicy]_vars

(***************************************************************************)
(* Failure episodes of one host: the operations of SpecHost, with the      *)
(* history kept in ev.rec: whether Do stored a status of 500 or more since *)
(* the breaker was last closed (or since the host was built).              *)
(***************************************************************************)
\* The history flag after an operation that takes the breaker of a host from
\* a to b: stored tells whether the operation itself stored a status.
StoredSinceClosed(a, b, stored) ==
    IF b.state = "closed" /\ a.state # "closed" THEN FALSE
    ELSE stored \/ (ev.rec # <<>> /\ ev.rec[1])

NextEpisode ==
    \/ \E h \in SoloHosts :
            /\ HostNewRequest(h, FALSE)
            /\ ev' = [op |-> "NewRequest", host |-> h, arg |-> 0,
                      ret |-> HostNewRequestResult(h, FALSE).ret,
                      rec |-> <<StoredSinceClosed(cb[h], cb[h], FALSE)>>,
                      pre |-> lastHTTPErrorStatus[h]]
            /\ UNCHANGED <<streak, picks, recorded, execVars, concVars, respVars,
                           telemetryVars>>
    \/ \E h \in SoloHosts, o \in DoOutcomes :
            /\ HostDo(h, o)
            /\ ev' = [op |-> "Do", host |-> h, arg |-> o, ret |-> "",
                      rec |-> <<StoredSinceClosed(cb[h], cb'[h], HostDoEffect(h, o).store)>>,
                      pre |-> lastHTTPErrorStatus[h]]
            /\ UNCHANGED <<streak, picks, recorded, execVars, concVars, respVars,
                           telemetryVars>>
    \/ \E h \in SoloHosts, o \in DoOutcomes :
            /\ HostCheckHealth(h, o)
            /\ ev' = [op |-> "CheckHealth", host |-> h, arg |-> o, ret |-> "",
                      rec |-> <<StoredSinceClosed(cb[h], cb'[h], FALSE)>>,
                      pre |-> lastHTTPErrorStatus[h]]
            /\ UNCHANGED <<streak, picks, recorded, execVars, concVars, respVars,
                           telemetryVars>>
    \/ \E h \in SoloHosts :
            /\ DelayElapses(h)
            /\ ev' = [NoEvent EXCEPT !.op = "DelayElapses", !.host = h,
                                     !.rec = <<StoredSinceClosed(cb[h], cb'[h], FALSE)>>,
                                     !.pre = lastHTTPErrorStatus[h]]
            /\ UNCHANGED <<streak, picks, recorded, execVars, concVars, respVars,
                           telemetryVars>>
    \/ \E h \in SoloHosts :
            /\ HostPermit(h)
            /\ ev' = [NoEvent EXCEPT !.op = "TryAcquirePermit", !.host = h,
                                     !.rec = <<StoredSinceClosed(cb[h], cb'[h], FALSE)>>,
                                     !.pre = lastHTTPErrorStatus[h]]
            /\ UNCHANGED <<streak, picks, recorded, execVars, concVars, respVars,
                           telemetryVars>>

SpecEpisode == InitHost /\ [][NextEpisode]_vars

(***************************************************************************)
(* The equal-weight scan: a balancer over three hosts of weight 1 with     *)
(* thresholds of 1; requests and the passing of time open the breakers     *)
(* and let their delays elapse.  After a Next, ev holds the host returned  *)
(* and, in rec, the cursor, the breakers and the stored statuses as they   *)
(* were before the call.                                                   *)
(***************************************************************************)
InitScan ==
    /\ failureThreshold = 1
    /\ successThreshold = 1
    /\ weight = [h \in TrioHosts |-> 1]
    /\ Constructed(TrioHosts, <<1, 2, 3>>)
    /\ retry = NoRetry
    /\ isDebug = FALSE
    /\ NoExecution
    /\ NoResponseObject
    /\ NoTelemetry
    /\ NoProcesses

NextScan ==
    \/ /\ LBNext
       /\ ev' = [NoEvent EXCEPT !.op = "Next", !.host = NextResult.host,
                                !.rec = <<totalWeight, cb, lastHTTPErrorStatus>>]
       /\ UNCHANGED <<streak, picks, recorded, execVars, concVars, respVars, telemetryVars>>
    \/ \E h \in TrioHosts, o \in DoOutcomes :
            /\ HostDo(h, o)
            /\ ev' = [NoEvent EXCEPT !.op = "Do", !.host = h, !.arg = o]
            /\ UNCHANGED <<streak, picks, recorded, execVars, concVars, respVars, telemetryVars>>
    \/ \E h \in TrioHosts :
            /\ DelayElapses(h)
            /\ ev' = [NoEvent EXCEPT !.op = "DelayElapses", !.host = h]
            /\ UNCHANGED <<streak, picks, recorded, execVars, concVars, respVars, telemetryVars>>

SpecScan == InitScan /\ [][NextScan]_vars

(***************************************************************************)
(* Callers that keep sending requests through a balancer of one or two     *)
(* hosts of any weights while time passes: each request is Next, then      *)
(* NewRequest and, unless it refuses, Do on the host returned, with any    *)
(* outcome.  Every caller that can go on does, and every delay elapses.    *)
(***************************************************************************)
CallNext ==
    /\ ev.op # "Next"
    /\ LBNext
    /\ ev' = [NoEvent EXCEPT !.op = "Next", !.host = NextResult.host]
    /\ UNCHANGED <<streak, picks, recorded, execVars, concVars, respVars, telemetryVars>>

CallSend(o) ==
    /\ ev.op = "Next"
    /\ LET h == ev.host
           r == HostNewRequestResult(h, FALSE)
       IN /\ IF r.ret = "refused"
             THEN UNCHANGED <<lbVars, hostVars, cfgVars>>
             ELSE HostDo(h, o)
          /\ ev' = [op |-> "Do", host |-> h, arg |-> IF r.ret = "refused" THEN 0 ELSE o,
                    ret |-> r.ret,
                    rec |-> IF r.ret = "refused" THEN <<>> ELSE HostDoEffect(h, o).rec,
                    pre |-> lastHTTPErrorStatus[h]]
    /\ UNCHANGED <<streak, picks, recorded, execVars, concVars, respVars, telemetryVars>>

DelayPasses(h) ==
    /\ DelayElapses(h)
    /\ UNCHANGED <<histVars, execVars, concVars, respVars, telemetryVars>>

InitCallers ==
    /\ failureThreshold = 1
    /\ successThreshold = 1
    /\ weight \in [HostIds -> 1..MaxWeight]
    /\ \E servers \in HostLists(HostIds) :
            servers # <<>> /\ Constructed(HostIds, servers)
    /\ retry = NoRetry
    /\ isDebug = FALSE
    /\ NoExecution
    /\ NoResponseObject
    /\ NoTelemetry
    /\ NoProcesses

NextCallers ==
    \/ CallNext
    \/ \E o \in DoOutcomes : CallSend(o)
    \/ \E h \in HostIds : DelayPasses(h)

\* Callers keep invoking Next and sending the request; time passes.
FairCallers ==
    /\ WF_vars(CallNext)
    /\ WF_vars(\E o \in DoOutcomes : CallSend(o))
    /\ \A h \in HostIds : WF_vars(DelayPasses(h))

SpecCallers == InitCallers /\ [][NextCallers]_vars /\ FairCallers

(***************************************************************************)
(* The weighted sequence: a balancer built over three hosts in the order   *)
(* 1, 2, 3, no request sent, every breaker closed; the weights are drawn   *)
(* from WeightChoices, SequenceWeights being the weights of the test.      *)
(***************************************************************************)
WeightChoices == {1, 2, 5}

SequenceWeights == <<5, 2, 1>>

InitSeq ==
    /\ failureThreshold = 1
    /\ successThreshold = 1
    /\ weight \in [TrioHosts -> WeightChoices]
    /\ Constructed(TrioHosts, <<1, 2, 3>>)
    /\ retry = NoRetry
    /\ isDebug = FALSE
    /\ NoExecution
    /\ NoResponseObject
    /\ NoTelemetry
    /\ NoProcesses

NextSeq ==
    /\ Len(picks) < MaxPicks
    /\ LBNext
    /\ picks' = IF NextResult.err THEN picks ELSE Append(picks, NextResult.host)
    /\ ev' = [NoEvent EXCEPT !.op = "Next", !.host = NextResult.host,
                             !.rec = <<currentWeight>>]
    /\ UNCHANGED <<streak, recorded, execVars, concVars, respVars, telemetryVars>>

SpecSeq == InitSeq /\ [][NextSeq]_vars

(***************************************************************************)
(* Refresh between selections: a balancer built over the hosts 1 and 2,    *)
(* and two more hosts, 3 and 4, of one weight, which no request has        *)
(* touched.  picks holds the hosts Next returned since the last Refresh    *)
(* with a list.                                                            *)
(***************************************************************************)
QuadHosts == {1, 2, 3, 4}

RunCount == 5

RefreshLists == HostLists({1, 2}) \cup {<<3, 4>>}

InitRefresh ==
    /\ failureThreshold = 1
    /\ successThreshold = 1
    /\ weight \in {w \in [QuadHosts -> 1..MaxWeight] : w[3] = w[4]}
    /\ \E servers \in HostLists({1, 2}) : Constructed(QuadHosts, servers)
    /\ retry = NoRetry
    /\ isDebug = FALSE
    /\ NoExecution
    /\ NoResponseObject
    /\ NoTelemetry
    /\ NoProcesses

NextRefresh ==
    \/ /\ Len(picks) < MaxPicks
       /\ LBNext
       /\ picks' = IF NextResult.err THEN picks ELSE Append(picks, NextResult.host)
       /\ ev' = [NoEvent EXCEPT !.op = "Next", !.host = NextResult.host]
       /\ UNCHANGED <<streak, recorded, execVars, concVars, respVars, telemetryVars>>
    \/ \E servers \in RefreshLists :
            /\ Refresh(servers)
            /\ picks' = <<>>
            /\ ev' = [NoEvent EXCEPT !.op = "Refresh"]
            /\ UNCHANGED <<streak, recorded, execVars, concVars, respVars, telemetryVars>>
    \/ /\ RefreshNil
       /\ ev' = [NoEvent EXCEPT !.op = "RefreshNil",
                                !.rec = <<hosts, isSameWeight, totalWeight, currentWeight>>]
       /\ UNCHANGED <<streak, picks, recorded, execVars, concVars, respVars, telemetryVars>>

SpecRefresh == InitRefresh /\ [][NextRefresh]_vars

(***************************************************************************)
(* The tracer of one attempt of doRequest.  span is the tracer: mode       *)
(* ("simple" for simpleClientTrace, "detailed" for clientTrace), totalTime *)
(* in clock ticks, ends (the End calls the underlying trace.Span           *)
(* received), metricAttrs, the gotConn and gotFirstResponseByte times as   *)
(* flags, and calls, the End calls made on the tracer.  serverDuration is  *)
(* the list of the attribute sets http.client.server.duration was recorded *)
(* with.  The time an End call measures, endTime - startTime, is a number  *)
(* of ticks of the clock, 0 when both readings fall into one tick.         *)
(***************************************************************************)
MaxElapsed == 3

MaxEnds == 2

MetricAttributeSets == {"common", "common+path"}

\* startSimpleClientTrace / startClientTrace.
StartTrace(mode) ==
    /\ span.mode = "none"
    /\ span' = [NoSpan EXCEPT !.mode = mode]
    /\ UNCHANGED <<serverDuration, conns, openConnections>>

\* SetMetricAttributes, called by doRequest once the request exists.
SetMetricAttributes(attrs) ==
    /\ span.mode # "none"
    /\ span.metricAttrs = "none"
    /\ span.calls = 0
    /\ span' = [span EXCEPT !.metricAttrs = attrs]
    /\ UNCHANGED <<serverDuration, conns, openConnections>>

\* The GotConn hook of clientTrace, during client.Do.
GotConn ==
    /\ span.mode = "detailed"
    /\ span.metricAttrs # "none"
    /\ span.calls = 0
    /\ ~span.gotConn /\ ~span.gotFirstResponseByte
    /\ span' = [span EXCEPT !.gotConn = TRUE]
    /\ UNCHANGED <<serverDuration, conns, openConnections>>

\* The GotFirstResponseByte hook of clientTrace, during client.Do.
GotFirstResponseByte ==
    /\ span.mode = "detailed"
    /\ span.metricAttrs # "none"
    /\ span.calls = 0
    /\ ~span.gotFirstResponseByte
    /\ span' = [span EXCEPT !.gotFirstResponseByte = TRUE]
    /\ serverDuration' = IF span.gotConn THEN Append(serverDuration, span.metricAttrs)
                         ELSE serverDuration
    /\ UNCHANGED <<conns, openConnections>>

\* simpleClientTrace.End, clientTrace.End; elapsed is the time measured.
\* The second call is the deferred one of doRequest, which exists only once
\* the request was created and SetMetricAttributes is near.
TraceEnd(elapsed) ==
    /\ span.mode # "none"
    /\ span.calls < MaxEnds
    /\ span.calls > 0 => span.metricAttrs # "none"
    /\ IF span.totalTime > 0
       THEN /\ span' = [span EXCEPT !.calls = @ + 1]
            /\ UNCHANGED serverDuration
       ELSE /\ span' = [span EXCEPT !.calls = @ + 1, !.ends = @ + 1,
                                    !.totalTime = elapsed]
            /\ serverDuration' =
                  IF span.mode = "simple" \/ ~span.gotFirstResponseByte
                  THEN Append(serverDuration, span.metricAttrs)
                  ELSE serverDuration
    /\ UNCHANGED <<conns, openConnections>>

traceFrame == <<lbVars, hostVars, cfgVars, histVars, execVars, concVars, respVars>>

InitTrace ==
    /\ failureThreshold = 1
    /\ successThreshold = 1
    /\ weight = [h \in SoloHosts |-> 1]
    /\ Constructed(SoloHosts, <<1>>)
    /\ retry = NoRetry
    /\ isDebug = FALSE
    /\ NoExecution
    /\ NoResponseObject
    /\ NoTelemetry
    /\ NoProcesses

NextTrace ==
    \/ \E mode \in {"simple", "detailed"} : StartTrace(mode) /\ UNCHANGED traceFrame
    \/ \E attrs \in MetricAttributeSets : SetMetricAttributes(attrs) /\ UNCHANGED traceFrame
    \/ GotConn /\ UNCHANGED traceFrame
    \/ GotFirstResponseByte /\ UNCHANGED traceFrame
    \/ \E elapsed \in 0..MaxElapsed : TraceEnd(elapsed) /\ UNCHANGED traceFrame

SpecTrace == InitTrace /\ [][NextTrace]_vars

(***************************************************************************)
(* The connections of a client.  conns[c] is the connection c: state       *)
(* ("none" before the dial, "open", "closed") and closes, the Close calls  *)
(* it received.  openConnections is the sum of what was added to           *)
(* http.client.open_connections.                                           *)
(***************************************************************************)
MaxCloses == 2

\* The function transportDialContext returns: dialer.DialContext fails
\* (ok = FALSE) or the connection is wrapped and counted.
DialContext(c, ok) ==
    /\ conns[c].state = "none"
    /\ conns' = IF ok THEN [conns EXCEPT ![c].state = "open"] ELSE conns
    /\ openConnections' = IF ok THEN openConnections + 1 ELSE openConnections
    /\ ev' = [NoEvent EXCEPT !.op = "DialContext", !.host = c, !.ret = IF ok THEN "conn" ELSE "error"]
    /\ UNCHANGED <<span, serverDuration>>

\* connWithMetric.Close, on a connection the dial function returned.
ConnClose(c) ==
    /\ conns[c].state # "none"
    /\ conns[c].closes < MaxCloses
    /\ conns' = [conns EXCEPT ![c] = [state |-> "closed", closes |-> @.closes + 1]]
    /\ openConnections' = openConnections - 1
    /\ ev' = [NoEvent EXCEPT !.op = "Close", !.host = c]
    /\ UNCHANGED <<span, serverDuration>>

connFrame == <<lbVars, hostVars, cfgVars, streak, picks, recorded, execVars, concVars,
               respVars>>

NextConn ==
    \/ \E c \in Conns, ok \in BOOLEAN : DialContext(c, ok) /\ UNCHANGED connFrame
    \/ \E c \in Conns : ConnClose(c) /\ UNCHANGED connFrame

SpecConn == InitTrace /\ [][NextConn]_vars

(***************************************************************************)
(* The Response wrapper.  response is the object: body is "nil" or         *)
(* "present", with the isBodyRead and closed flags.  bodyLog is the        *)
(* history of the underlying body and of the calls: closes, the number of  *)
(* Close calls the underlying io.ReadCloser received; handed, the number   *)
(* of times a read helper passed its checks and read the body for the      *)
(* caller; reads, the read helpers invoked; calls, the methods invoked.    *)
(* After a call, ev holds the method, the error returned (ret), whether    *)
(* content was handed (arg) and the object and the history before the      *)
(* call (rec).                                                             *)
(***************************************************************************)
MaxCalls == 6

ResponseOutcomes == {"ok", "fail"}

\* The check at the head of ReadBytes and of ReadJSON: the error returned
\* before the body is touched, "nil" when the helper goes on to read.
ReadGuard(r) ==
    IF r.closed THEN "ErrBodyReadAfterClose"
    ELSE IF r.isBodyRead THEN "ErrResponseBodyAlreadyRead"
    ELSE IF r.body = "nil" THEN "ErrResponseBodyNoContent"
    ELSE "nil"

\* A variant of ReadEffect that leaves the isBodyRead flag as it is.
ReadEffectKeepingFlag(r) == r

\* What a read helper that passed its checks does to the object.
ReadEffect(r) == [r EXCEPT !.isBodyRead = TRUE]

\* A variant of CloseClosesBody that closes every body there is.
CloseClosesBodyAlways(r) == r.body # "nil"

\* Whether Close, on an object that is not closed, closes the body.
CloseClosesBody(r) == ~r.isBodyRead /\ r.body # "nil"

\* ReadBytes (op = "ReadBytes") or ReadJSON (op = "ReadJSON"); o is the
\* outcome of io.ReadAll or of the decoder.  The deferred body.Close runs
\* whenever the checks were passed, and its error is only logged.
ReadHelper(op, o) ==
    LET g == ReadGuard(response) IN
    /\ bodyLog.calls < MaxCalls
    /\ response' = IF g = "nil" THEN ReadEffect(response) ELSE response
    /\ bodyLog' = [closes |-> bodyLog.closes + (IF g = "nil" THEN 1 ELSE 0),
                   handed |-> bodyLog.handed + (IF g = "nil" THEN 1 ELSE 0),
                   reads |-> bodyLog.reads + 1,
                   calls |-> bodyLog.calls + 1]
    /\ ev' = [NoEvent EXCEPT !.op = op,
                             !.ret = IF g # "nil" THEN g
                                     ELSE IF o = "ok" THEN "nil" ELSE "read error",
                             !.arg = IF g = "nil" THEN 1 ELSE 0,
                             !.rec = <<response, bodyLog>>]
    /\ UNCHANGED <<lbVars, hostVars, cfgVars, streak, picks, recorded, execVars, concVars,
                   telemetryVars>>

ReadBytes(o) == ReadHelper("ReadBytes", o)

ReadJSON(o) == ReadHelper("ReadJSON", o)

\* Response.Close; o is the outcome of body.Close.
ResponseClose(o) ==
    LET closing == ~response.closed /\ CloseClosesBody(response) IN
    /\ bodyLog.calls < MaxCalls
    /\ response' = [response EXCEPT !.closed = TRUE]
    /\ bodyLog' = [bodyLog EXCEPT !.closes = @ + (IF closing THEN 1 ELSE 0),
                                  !.calls = @ + 1]
    /\ ev' = [NoEvent EXCEPT !.op = "Close",
                             !.ret = IF closing /\ o = "fail" THEN "close error" ELSE "nil",
                             !.rec = <<response, bodyLog>>]
    /\ UNCHANGED <<lbVars, hostVars, cfgVars, streak, picks, recorded, execVars, concVars,
                   telemetryVars>>

InitResp ==
    /\ failureThreshold = 1
    /\ successThreshold = 1
    /\ weight = [h \in SoloHosts |-> 1]
    /\ Constructed(SoloHosts, <<1>>)
    /\ retry = NoRetry
    /\ isDebug = FALSE
    /\ NoExecution
    /\ response \in [body : {"nil", "present"}, isBodyRead : {FALSE}, closed : {FALSE}]
    /\ bodyLog = [closes |-> 0, handed |-> 0, reads |-> 0, calls |-> 0]
    /\ NoTelemetry
    /\ NoProcesses

NextResp ==
    \/ \E o \in ResponseOutcomes : ReadBytes(o)
    \/ \E o \in ResponseOutcomes : ReadJSON(o)
    \/ \E o \in ResponseOutcomes : ResponseClose(o)

SpecResp == InitResp /\ [][NextResp]_vars

(***************************************************************************)
(* Execute calls on one Request, one after the other: the request is       *)
(* executed again (or its Clone is) once an Execute call has returned.     *)
(* The fields of the Request stay as the last call left them; the context, *)
(* the retry policy's execution and the locals of Execute are new.         *)
(***************************************************************************)
ExecuteAgain ==
    /\ pc = "returned"
    /\ executions < MaxExecutions
    /\ pc' = "idle"
    /\ failedAttempts' = 0
    /\ dispatched' = 0
    /\ last' = [resp |-> NilResp, err |-> NoErr]
    /\ waitLeft' = 0
    /\ cancelled' = FALSE
    /\ ret' = [resp |-> NilResp, err |-> NoErr]
    /\ sent' = <<>>
    /\ durations' = <<>>
    /\ UNCHANGED <<retry, isDebug, retryAttempts, activeRequests, metric, reqBody,
                   executions>>
    /\ UNCHANGED <<lbVars, hostVars, cfgVars>>

NextReuse ==
    \/ NextExec
    \/ ExecuteAgain /\ UNCHANGED <<histVars, concVars, respVars, telemetryVars>>

SpecReuse == InitExec /\ [][NextReuse]_vars

(***************************************************************************)
(* StartHealthCheck and Close called by concurrent goroutines on one       *)
(* balancer.  Each process makes one call; a StartHealthCheck call has its *)
(* own context.  wrr.lock is a sync.Mutex: Lock blocks while it is held,   *)
(* by whomever, the caller included.  A critical section that cannot block *)
(* inside is one step.                                                     *)
(***************************************************************************)
Procs == 1..MaxProcs
ProbeOutcomes == {NoResponse, StatusOK, StatusBadGateway}
IdleProc == [op |-> "none", pc |-> "idle", todo |-> <<>>, host |-> 0]
LoopPcs == {"loop", "loop-hosts", "loop-probe", "loop-close"}

\* A variant of CanLock for a lock that excludes nobody.
CanLockUnguarded(p) == TRUE

\* sync.Mutex.Lock returns for process p only when nobody holds the mutex.
CanLock(p) == lock = 0

\* A goroutine calls wrr.StartHealthCheck(ctx) or wrr.Close().
Call(p, op) ==
    /\ proc[p].pc = "idle"
    /\ proc' = [proc EXCEPT ![p].op = op,
                            ![p].pc = IF op = "StartHealthCheck" THEN "shc-lock"
                                      ELSE "close-lock"]
    /\ UNCHANGED <<lbVars, hostVars, cfgVars, lock, tick, timers, pending, ctxDone,
                   closes, healthCheckInterval>>

\* StartHealthCheck up to the loop: Lock; return when the interval is not
\* positive; with a ticker installed, call wrr.Close while holding the lock;
\* otherwise install a new ticker and Unlock.
SHCEnter(p) ==
    /\ proc[p].pc = "shc-lock"
    /\ CanLock(p)
    /\ IF healthCheckInterval <= 0
       THEN /\ proc' = [proc EXCEPT ![p].pc = "returned"]
            /\ UNCHANGED <<lock, tick, timers>>
       ELSE IF tick # 0
            THEN /\ lock' = p
                 /\ proc' = [proc EXCEPT ![p].pc = "shc-close"]
                 /\ UNCHANGED <<tick, timers>>
            ELSE /\ timers' = [timers EXCEPT ![p] = "running"]
                 /\ tick' = p
                 /\ proc' = [proc EXCEPT ![p].pc = "loop"]
                 /\ UNCHANGED lock
    /\ UNCHANGED <<lbVars, hostVars, cfgVars, pending, ctxDone, closes,
                   healthCheckInterval>>

\* wrr.Close, called directly, by StartHealthCheck before it installs its
\* ticker, or by the loop on ctx.Done: Lock; nothing when tick is nil; else
\* stop the ticker, forget it and close every host; Unlock.  Host.Close closes
\* the breaker.  The caller in StartHealthCheck goes on to install its ticker.
\* The module is built for go 1.25, whose ticker channel delivers no tick
\* prepared before Stop once Stop has returned: a pending tick is dropped.
LBClose(p) ==
    /\ proc[p].pc \in {"close-lock", "shc-close", "loop-close"}
    /\ CanLock(p)
    /\ IF tick = 0
       THEN UNCHANGED <<hostVars, closes>>
       ELSE /\ closes' = [h \in DOMAIN closes |->
                             IF h \in {hosts[i] : i \in 1..Len(hosts)}
                             THEN closes[h] + 1 ELSE closes[h]]
            /\ cb' = [h \in DOMAIN cb |->
                         IF h \in {hosts[i] : i \in 1..Len(hosts)}
                         THEN ClosedCB ELSE cb[h]]
            /\ UNCHANGED <<weight, currentWeight, lastHTTPErrorStatus>>
    /\ IF proc[p].pc = "shc-close"
       THEN /\ timers' = [t \in DOMAIN timers |->
                             IF t = p THEN "running"
                             ELSE IF t = tick THEN "stopped" ELSE timers[t]]
            /\ tick' = p
            /\ lock' = 0
            /\ proc' = [proc EXCEPT ![p].pc = "loop"]
       ELSE /\ timers' = IF tick = 0 THEN timers
                         ELSE [timers EXCEPT ![tick] = "stopped"]
            /\ tick' = 0
            /\ UNCHANGED lock
            /\ proc' = [proc EXCEPT ![p].pc = "returned"]
    /\ pending' = pending \ {tick}
    /\ UNCHANGED <<lbVars, cfgVars, ctxDone, healthCheckInterval>>

\* Time passes: a running ticker puts a tick in its channel, which holds one.
TickFires(t) ==
    /\ timers[t] = "running"
    /\ t \notin pending
    /\ pending' = pending \cup {t}
    /\ UNCHANGED <<lbVars, hostVars, cfgVars, lock, tick, timers, ctxDone, closes,
                   proc, healthCheckInterval>>

\* The context of process p's StartHealthCheck call is cancelled.
CancelCtx(p) ==
    /\ proc[p].op = "StartHealthCheck"
    /\ p \notin ctxDone
    /\ ctxDone' = ctxDone \cup {p}
    /\ UNCHANGED <<lbVars, hostVars, cfgVars, lock, tick, timers, pending, closes,
                   proc, healthCheckInterval>>

\* The select of the loop takes <-ctx.Done(): wrr.Close comes next.
LoopCtxDone(p) ==
    /\ proc[p].pc = "loop"
    /\ p \in ctxDone
    /\ proc' = [proc EXCEPT ![p].pc = "loop-close"]
    /\ UNCHANGED <<lbVars, hostVars, cfgVars, lock, tick, timers, pending, ctxDone,
                   closes, healthCheckInterval>>

\* The select of the loop takes <-newTicker.C: wrr.Hosts() comes next.
LoopTick(p) ==
    /\ proc[p].pc = "loop"
    /\ p \in pending
    /\ pending' = pending \ {p}
    /\ proc' = [proc EXCEPT ![p].pc = "loop-hosts"]
    /\ UNCHANGED <<lbVars, hostVars, cfgVars, lock, tick, timers, ctxDone, closes,
                   healthCheckInterval>>

\* wrr.Hosts(): Lock, read wrr.hosts, Unlock.
LoopHosts(p) ==
    /\ proc[p].pc = "loop-hosts"
    /\ CanLock(p)
    /\ proc' = [proc EXCEPT ![p].todo = hosts,
                            ![p].pc = IF hosts = <<>> THEN "loop" ELSE "loop-probe"]
    /\ UNCHANGED <<lbVars, hostVars, cfgVars, lock, tick, timers, pending, ctxDone,
                   closes, healthCheckInterval>>

\* host.CheckHealth(ctx) on the next host of the range; the probe gets no
\* response when ctx is done.
Probe(p, o) ==
    /\ proc[p].pc = "loop-probe"
    /\ p \in ctxDone => o = NoResponse
    /\ HostCheckHealth(Head(proc[p].todo), o)
    /\ proc' = [proc EXCEPT ![p].todo = Tail(@),
                            ![p].pc = IF Tail(proc[p].todo) = <<>> THEN "loop"
                                      ELSE "loop-probe"]
    /\ ev' = [NoEvent EXCEPT !.op = "CheckHealth", !.host = Head(proc[p].todo),
                             !.arg = o]
    /\ UNCHANGED <<lock, tick, timers, pending, ctxDone, closes, healthCheckInterval>>

InitHC ==
    /\ failureThreshold = 1
    /\ successThreshold \in 1..MaxSuccessThreshold
    /\ weight = [h \in HostIds |-> 1]
    /\ Constructed(HostIds, <<1, 2>>)
    /\ retry = NoRetry
    /\ isDebug = FALSE
    /\ NoExecution
    /\ NoResponseObject
    /\ NoTelemetry
    /\ lock = 0
    /\ tick = 0
    /\ timers = [p \in Procs |-> "none"]
    /\ pending = {}
    /\ ctxDone = {}
    /\ proc = [p \in Procs |-> IdleProc]
    /\ healthCheckInterval \in {0, 1}

NextHC ==
    \/ \E p \in Procs, op \in {"StartHealthCheck", "Close"} :
            Call(p, op) /\ UNCHANGED <<histVars, execVars, respVars, telemetryVars>>
    \/ \E p \in Procs : SHCEnter(p) /\ UNCHANGED <<histVars, execVars, respVars, telemetryVars>>
    \/ \E p \in Procs : LBClose(p) /\ UNCHANGED <<histVars, execVars, respVars, telemetryVars>>
    \/ \E t \in Procs : TickFires(t) /\ UNCHANGED <<histVars, execVars, respVars, telemetryVars>>
    \/ \E p \in Procs : CancelCtx(p) /\ UNCHANGED <<histVars, execVars, respVars, telemetryVars>>
    \/ \E p \in Procs : LoopCtxDone(p) /\ UNCHANGED <<histVars, execVars, respVars, telemetryVars>>
    \/ \E p \in Procs : LoopTick(p) /\ UNCHANGED <<histVars, execVars, respVars, telemetryVars>>
    \/ \E p \in Procs : LoopHosts(p) /\ UNCHANGED <<histVars, execVars, respVars, telemetryVars>>
    \/ \E p \in Procs, o \in ProbeOutcomes :
            Probe(p, o) /\ UNCHANGED <<streak, picks, recorded, execVars, respVars, telemetryVars>>

SpecHC == InitHC /\ [][NextHC]_vars

\* The scheduler runs every goroutine that can take a step; a select with
\* several ready cases picks one at random, so a case that is ready again and
\* again is taken.
FairHC ==
    \A p \in Procs :
        /\ WF_vars(SHCEnter(p) /\ UNCHANGED <<histVars, execVars, respVars, telemetryVars>>)
        /\ WF_vars(LBClose(p) /\ UNCHANGED <<histVars, execVars, respVars, telemetryVars>>)
        /\ SF_vars(LoopCtxDone(p) /\ UNCHANGED <<histVars, execVars, respVars, telemetryVars>>)
        /\ SF_vars(LoopTick(p) /\ UNCHANGED <<histVars, execVars, respVars, telemetryVars>>)
        /\ WF_vars(LoopHosts(p) /\ UNCHANGED <<histVars, execVars, respVars, telemetryVars>>)
        /\ WF_vars(\E o \in ProbeOutcomes :
                       Probe(p, o) /\ UNCHANGED <<streak, picks, recorded, execVars, respVars, telemetryVars>>)
        /\ WF_vars(TickFires(p) /\ UNCHANGED <<histVars, execVars, respVars, telemetryVars>>)

SpecHCFair == InitHC /\ [][NextHC]_vars /\ FairHC

(***************************************************************************)
(* Requests and Refresh calls by concurrent goroutines on one balancer.    *)
(* A request is LoadBalancerClient.HTTPClient (wrr.Next), Host.NewRequest  *)
(* and Host.Do, as doRequest calls them.  Next and Refresh hold wrr.lock   *)
(* from their first statement to their return; Refresh writes the three    *)
(* fields of the balancer one after the other.                             *)
(***************************************************************************)
CriticalPcs == {"next-body", "refresh-hosts", "refresh-flag", "refresh-total"}
lockFrame == <<tick, timers, pending, ctxDone, closes, healthCheckInterval>>

\* A goroutine starts a request, or calls wrr.Refresh(servers), servers not nil.
Begin(p, op, servers) ==
    /\ proc[p].pc = "idle"
    /\ proc' = [proc EXCEPT ![p].op = op,
                            ![p].todo = IF op = "Refresh" THEN servers ELSE <<>>,
                            ![p].pc = IF op = "Refresh" THEN "refresh-lock"
                                      ELSE "next-lock"]
    /\ UNCHANGED <<lbVars, hostVars, cfgVars, lock, lockFrame>>

\* Next: wrr.lock.Lock().
NextLock(p) ==
    /\ proc[p].pc = "next-lock"
    /\ CanLock(p)
    /\ lock' = p
    /\ proc' = [proc EXCEPT ![p].pc = "next-body"]
    /\ UNCHANGED <<lbVars, hostVars, cfgVars, lockFrame>>

\* Next: the switch on len(wrr.hosts) and the scan, then the deferred Unlock.
NextBody(p) ==
    /\ proc[p].pc = "next-body"
    /\ LBNext
    /\ lock' = 0
    /\ proc' = [proc EXCEPT ![p].host = NextResult.host,
                            ![p].pc = IF NextResult.err THEN "returned" ELSE "picked"]
    /\ UNCHANGED lockFrame

\* Refresh: wrr.lock.Lock().
RefreshLock(p) ==
    /\ proc[p].pc = "refresh-lock"
    /\ CanLock(p)
    /\ lock' = p
    /\ proc' = [proc EXCEPT ![p].pc = "refresh-hosts"]
    /\ UNCHANGED <<lbVars, hostVars, cfgVars, lockFrame>>

\* Refresh: wrr.hosts = servers.
RefreshHosts(p) ==
    /\ proc[p].pc = "refresh-hosts"
    /\ hosts' = proc[p].todo
    /\ proc' = [proc EXCEPT ![p].pc = "refresh-flag"]
    /\ UNCHANGED <<isSameWeight, totalWeight, hostVars, cfgVars, lock, lockFrame>>

\* Refresh: wrr.isSameWeight = isSameWeight.
RefreshFlag(p) ==
    /\ proc[p].pc = "refresh-flag"
    /\ isSameWeight' = AllSameWeight(proc[p].todo)
    /\ proc' = [proc EXCEPT ![p].pc = "refresh-total"]
    /\ UNCHANGED <<hosts, totalWeight, hostVars, cfgVars, lock, lockFrame>>

\* Refresh: wrr.totalWeight = 0 or newTotalWeight, then the deferred Unlock.
RefreshTotal(p) ==
    /\ proc[p].pc = "refresh-total"
    /\ totalWeight' = IF AllSameWeight(proc[p].todo) THEN 0
                      ELSE SumWeights(proc[p].todo)
    /\ lock' = 0
    /\ proc' = [proc EXCEPT ![p].pc = "returned"]
    /\ UNCHANGED <<hosts, isSameWeight, hostVars, cfgVars, lockFrame>>

\* doRequest: client.NewRequest on the host Next returned; the request is in
\* flight unless the host refuses it.
SendNewRequest(p) ==
    /\ proc[p].pc = "picked"
    /\ proc' = [proc EXCEPT ![p].pc =
                   IF HostNewRequestResult(proc[p].host, FALSE).ret = "refused"
                   THEN "returned" ELSE "dispatched"]
    /\ UNCHANGED <<lbVars, hostVars, cfgVars, lock, lockFrame>>

\* doRequest: client.Do returns with the outcome o of the request in flight.
DoReturns(p, o) ==
    /\ proc[p].pc = "dispatched"
    /\ HostDo(proc[p].host, o)
    /\ proc' = [proc EXCEPT ![p].pc = "returned"]
    /\ UNCHANGED <<lock, lockFrame>>

InitLock ==
    /\ failureThreshold \in 1..MaxFailureThreshold
    /\ successThreshold \in 1..MaxSuccessThreshold
    /\ weight \in [HostIds -> 1..MaxWeight]
    /\ \E servers \in HostLists(HostIds) : Constructed(HostIds, servers)
    /\ retry = NoRetry
    /\ isDebug = FALSE
    /\ NoExecution
    /\ NoResponseObject
    /\ NoTelemetry
    /\ lock = 0
    /\ tick = 0
    /\ timers = <<>>
    /\ pending = {}
    /\ ctxDone = {}
    /\ proc = [p \in Procs |-> IdleProc]
    /\ healthCheckInterval = 0

NextLockSpec ==
    \/ \E p \in Procs, op \in {"Request", "Refresh"}, servers \in HostLists(HostIds) :
            Begin(p, op, servers) /\ UNCHANGED <<histVars, execVars, respVars, telemetryVars>>
    \/ \E p \in Procs : NextLock(p) /\ UNCHANGED <<histVars, execVars, respVars, telemetryVars>>
    \/ \E p \in Procs : NextBody(p) /\ UNCHANGED <<histVars, execVars, respVars, telemetryVars>>
    \/ \E p \in Procs : RefreshLock(p) /\ UNCHANGED <<histVars, execVars, respVars, telemetryVars>>
    \/ \E p \in Procs : RefreshHosts(p) /\ UNCHANGED <<histVars, execVars, respVars, telemetryVars>>
    \/ \E p \in Procs : RefreshFlag(p) /\ UNCHANGED <<histVars, execVars, respVars, telemetryVars>>
    \/ \E p \in Procs : RefreshTotal(p) /\ UNCHANGED <<histVars, execVars, respVars, telemetryVars>>
    \/ \E p \in Procs : SendNewRequest(p) /\ UNCHANGED <<histVars, execVars, respVars, telemetryVars>>
    \/ \E p \in Procs, o \in DoOutcomes : DoReturns(p, o) /\ UNCHANGED <<histVars, execVars, respVars, telemetryVars>>

SpecLock == InitLock /\ [][NextLockSpec]_vars

(***************************************************************************)
(* Properties of the load balancer, the hosts and the breakers.            *)
(***************************************************************************)
Range(q) == {q[i] : i \in 1..Len(q)}

OpensAtThresholdOnly ==
    [][\A h \in SoloHosts :
          /\ (cb[h].state # "open" /\ cb'[h].state = "open")
                => streak'[h] >= failureThreshold
          /\ (streak[h] < failureThreshold /\ streak'[h] = failureThreshold)
                => cb'[h].state = "open"]_vars

\* C3: with all hosts healthy and current weights starting at 0, every
\* window of sum(wi) consecutive selections holds host i exactly wi times.
WindowsHoldWeights ==
    LET W == SumWeights(hosts) IN
    \A a \in 1..Len(picks) :
        (W > 0 /\ a + W - 1 <= Len(picks)) =>
            \A h \in Range(hosts) :
                Cardinality({i \in a..(a + W - 1) : picks[i] = h}) = weight[h]

\* Three hosts of unequal weights and more selections than one window.
SeveralWindowsReached ==
    /\ Len(hosts) = 3
    /\ ~isSameWeight
    /\ Len(picks) > SumWeights(hosts)

DoRecordsOneOutcome ==
    ev.op = "Do" =>
        /\ ev.arg >= 500 =>
              ev.rec = <<"failure">> /\ lastHTTPErrorStatus[ev.host] = ev.arg
        /\ (ev.arg # NoResponse /\ ev.arg < 500) =>
              ev.rec = <<"success">> /\ lastHTTPErrorStatus[ev.host] = ev.pre
        /\ ev.arg = NoResponse =>
              ev.rec = <<"failure">> /\ lastHTTPErrorStatus[ev.host] = ev.pre

\* Do has handled a transport error on a host that had stored a 502 before.
DoOnErrorReached ==
    /\ ev.op = "Do"
    /\ ev.arg = NoResponse
    /\ ev.pre = StatusBadGateway
    /\ ev.rec = <<"failure">>

(***************************************************************************)
(* Properties of the request executor.                                     *)
(***************************************************************************)

\* C6: with a retry policy and attempts remaining, an attempt that ends with
\* a retryable transport error (an error, no response) is followed by
\* another attempt: the execution is waiting for it or about to make it.
TransportErrorIsRetried ==
    ( /\ retry.set
      /\ ~cancelled
      /\ last.err.kind = "transport"
      /\ (retry.maxAttempts = 0 \/ dispatched < retry.maxAttempts)
      /\ dispatched < MaxDispatch )
    => pc \in {"waiting", "running"}

\* C7: once the context is done during a retried execution, during the wait
\* between attempts or while an attempt is in flight, the retry loop stops
\* at once: the next step is the return of Execute, no attempt is dispatched
\* and no more of the delay is waited out.
CancelStopsRetryLoop ==
    [][ /\ (retry.set /\ cancelled /\ pc \in {"running", "waiting"})
            => (pc' = "returned" /\ dispatched' = dispatched)
        /\ (retry.set /\ ~cancelled /\ cancelled' /\ dispatched' = dispatched + 1)
            => pc' = "returned" ]_vars

\* C8: whenever the last attempt's response has status >= 400 (the attempt
\* got as far as building the problem-details error, and the debug log did
\* not fail to read the body), Execute returns a problem-details error for
\* that status, with and without a retry policy.
ErrorStatusReturnsProblemDetails ==
    ( /\ pc = "returned"
      /\ last.resp.status >= 400
      /\ last.err.kind = "http"
      /\ ret.err.kind # "read" )
    => (ret.err.kind = "http" /\ ret.err.status = last.resp.status)

\* C9: when a request was retried and its last attempt failed, the error
\* Execute returns is the error that last attempt produced.
RetriedReturnsLastAttemptError ==
    (pc = "returned" /\ retry.set /\ dispatched >= 2 /\ last.err.kind # "nil")
    => ret.err = last.err

\* C10: whenever Execute returns an error, the response returned with it is
\* nil, or has no body, or has a body the executor has closed (the copy the
\* debug branch substitutes for a closed body included), on every error
\* path, with and without a retry policy.
ErrorLeavesNothingToClose ==
    (pc = "returned" /\ ret.err.kind # "nil")
    => \/ ret.resp.status = 0
       \/ ret.resp.body \in {"none", "closed", "copy-of-closed"}

\* Execute has returned a response of status >= 400 whose body it closed,
\* together with the problem-details error, on the path without retries.
ErrorWithClosedBodyReached ==
    /\ pc = "returned"
    /\ ~retry.set
    /\ ret.err.kind = "http"
    /\ ret.resp.status >= 400
    /\ ret.resp.body = "closed"

\* C20: across an Execute call http.client.active_requests has net change
\* zero: every attempt that builds its request adds +1 once and -1 once, on
\* every exit path, and the counter never drops below its value before the
\* call.
ActiveRequestsBalanced ==
    /\ activeRequests = 0
    /\ metric.adds = metric.subs
    /\ metric.adds <= dispatched
    /\ metric.low >= 0
    /\ (pc # "idle" /\ dispatched >= 1
        /\ last.err.kind \in {"auth", "transport", "decompress", "http"})
          => metric.adds >= 1

\* A retried Execute call has returned after two attempts that both counted,
\* the last of them ending in a decompression failure.
TwoAttemptsCountedReached ==
    /\ pc = "returned"
    /\ metric.adds = 2
    /\ metric.subs = 2
    /\ last.err.kind = "decompress"

(***************************************************************************)
(* Properties of the breaker's transitions.                                *)
(***************************************************************************)

FirstOutcomeChangesState ==
    [][\A h \in SoloHosts :
          (recorded[h] = 0 /\ recorded'[h] >= 1) =>
             /\ cb[h].state = "half-open"
             /\ cb'[h].state # cb[h].state]_vars

\* C18: once a host's breaker has opened on a 502, and its delay not having
\* elapsed, Next does not return that host while some other host is not
\* open; and after 10 sequential requests to hosts 1, 2, 3 with
\* failureThreshold = 1 and host 3 always answering 502, host 3 has received
\* exactly 1 request and hosts 1 and 2 have received 6 and 3 with weights
\* (2, 1, 1), 5 and 4 with equal weights.
TrippedHostIsAvoided ==
    LET count(h) == Cardinality({i \in 1..Len(picks) : picks[i] = h})
    IN /\ \A h \in Range(hosts) :
             ( /\ Len(hosts) >= 2
               /\ cb[h].state = "open"
               /\ ~cb[h].expired
               /\ lastHTTPErrorStatus[h] = 502
               /\ \E g \in Range(hosts) : cb[g].state # "open" )
             => NextResult.host # h
       /\ Len(hosts) = 3 => ev.ret # "refused"
       /\ (hosts = <<1, 2, 3>> /\ Len(picks) = 10 /\ ev.op = "Do") =>
             /\ weight = <<2, 1, 1>> =>
                   count(1) = 6 /\ count(2) = 3 /\ count(3) = 1
             /\ isSameWeight =>
                   count(1) = 5 /\ count(2) = 4 /\ count(3) = 1

\* The 10 requests of the weighted scenario have been made, and host 3 is
\* open on its 502.
WeightedScenarioDoneReached ==
    /\ hosts = <<1, 2, 3>>
    /\ weight = <<2, 1, 1>>
    /\ Len(picks) = 10
    /\ ev.op = "Do"
    /\ cb[3].state = "open"
    /\ lastHTTPErrorStatus[3] = 502

(***************************************************************************)
(* Properties of StartHealthCheck and Close under concurrency.             *)
(***************************************************************************)
\* C11: a second StartHealthCheck call (probe interval > 0) on a balancer
\* that still holds the ticker of a prior call completes the replacement: the
\* prior ticker is stopped, its own ticker is installed and running, and it
\* reaches its loop.
SecondStartReplacesTicker ==
    \A p \in Procs :
        (proc[p].pc = "shc-close")
            ~> (proc[p].pc \in LoopPcs /\ timers[p] = "running"
                /\ \A t \in Procs \ {p} : timers[t] # "running")

\* C12: every host is closed exactly once: once a Close call of the balancer
\* has returned (a direct one, or the one the loop issues on ctx.Done) every
\* host has been closed, StartHealthCheck called or not, and no host is ever
\* closed a second time.
CloseClosesEveryHostOnce ==
    /\ \A h \in DOMAIN closes : closes[h] <= 1
    /\ (\E p \in Procs : proc[p].pc = "returned"
                         /\ (proc[p].op = "Close" \/ healthCheckInterval > 0))
          => \A h \in DOMAIN closes : closes[h] = 1

\* C13: a StartHealthCheck loop whose context is cancelled eventually returns
\* (through Close), and a loop that took a tick goes on to read the hosts and
\* probe them.
CancelledLoopReturns ==
    \A p \in Procs :
        /\ (proc[p].pc \in LoopPcs /\ p \in ctxDone) ~> (proc[p].pc = "returned")
        /\ (proc[p].pc = "loop-hosts") ~> (proc[p].pc \in {"loop-probe", "returned"})

\* What Refresh leaves and Next keeps: the equal-weight flag is that of the
\* host list, and the counter is the sum of the weights or, in the equal-weight
\* mode, an index of the list.
BalancerConsistent ==
    /\ isSameWeight = AllSameWeight(hosts)
    /\ ~isSameWeight => totalWeight = SumWeights(hosts)
    /\ isSameWeight => totalWeight \in 0..(IF Len(hosts) = 0 THEN 0 ELSE Len(hosts) - 1)

\* C14: Next and Refresh never run concurrently (at most one goroutine is
\* between Lock and Unlock, and the scan of Next starts from a complete host
\* list, flag and counter); the balancer's fields and every host's
\* current-weight are written only by the holder of the lock; and
\* last-http-error-status is written by the single Store of the Do of one
\* host.
LockProtectsBalancer ==
    [][/\ Cardinality({p \in Procs : proc[p].pc \in CriticalPcs}) <= 1
       /\ \A p \in Procs : proc[p].pc = "next-body" => BalancerConsistent
       /\ (currentWeight' # currentWeight)
             => (lock # 0 /\ proc[lock].pc = "next-body")
       /\ (lbVars' # lbVars) => (lock # 0 /\ proc[lock].pc \in CriticalPcs)
       /\ (lastHTTPErrorStatus' # lastHTTPErrorStatus)
             => \E p \in Procs :
                    /\ proc[p].pc = "dispatched"
                    /\ proc'[p].pc = "returned"
                    /\ \A h \in DOMAIN lastHTTPErrorStatus :
                          h # proc[p].host
                             => lastHTTPErrorStatus'[h] = lastHTTPErrorStatus[h]
      ]_vars

\* A Next call waits on the lock while a Refresh has written the new host
\* list but not yet the flag that goes with it.
NextWaitsOnHalfRefreshReached ==
    \E p, q \in Procs :
        /\ proc[p].pc = "refresh-flag"
        /\ proc[q].pc = "next-lock"
        /\ isSameWeight # AllSameWeight(hosts)

\* C19: while a host's breaker is half-open, at most one request is in flight
\* to that host.
HalfOpenAdmitsOneTrial ==
    \A h \in DOMAIN cb :
        cb[h].state = "half-open"
           => Cardinality({p \in Procs : proc[p].pc = "dispatched"
                                         /\ proc[p].host = h}) <= 1

(***************************************************************************)
(* Properties of the request body, the resend count and the metrics.       *)
(***************************************************************************)
\* C21: with a retry policy, every attempt is given the same body bytes to
\* send as the first attempt, whatever the kind of the body.
SameBodyEveryAttempt ==
    retry.set => \A i \in 1..Len(sent) : sent[i] = sent[1]

\* C22: the k-th attempt (k >= 2) of an Execute call carries
\* http.request.resend_count = k - 1: doRequest sets the attribute from
\* retryAttempts, so retryAttempts is k - 1 when the k-th attempt starts.
ResendCountIsAttemptMinusOne ==
    (pc = "running" /\ dispatched >= 1) => retryAttempts = dispatched

\* C25: an Execute call that ends with a successful response has recorded
\* exactly one http.client.request.duration sample, whatever the number of
\* attempts, and the sample carries http.request.method and the
\* http.response.status_code of the returned response.
OneDurationSamplePerExecute ==
    (pc = "returned" /\ ret.err.kind = "nil" /\ ret.resp.status # 0)
        => /\ Len(durations) = 1
           /\ durations[1].status = ret.resp.status
           /\ {"http.request.method", "http.response.status_code"}
                 \subseteq durations[1].attrs

\* An Execute call has returned a successful response after three attempts.
SuccessAfterRetriesReached ==
    /\ pc = "returned"
    /\ ret.err.kind = "nil"
    /\ ret.resp.status = StatusOK
    /\ dispatched = 3
    /\ Len(durations) = 1

(***************************************************************************)
(* Properties of the retry policy.                                         *)
(***************************************************************************)
\* C23: the retry decision for (response, error) is: no retry for an error
\* of a non-retryable signature (unsupported protocol scheme, certificate is
\* not trusted, unknown authority, stopped after N redirects); else retry for
\* a non-nil error; else retry for a status in the configured set, 429, or
\* 500..599 but 501; else no retry.
RetryDecisionAsSpecified ==
    ev.op = "retryHandleFunc"
        => ev.ret =
              (IF last.err.kind \in {"unsupported", "untrusted", "redirects",
                                     "unknown-authority", "unknown-authority-tls"}
               THEN FALSE
               ELSE IF last.err.kind # "nil" THEN TRUE
               ELSE /\ last.resp.status # 0
                    /\ \/ last.resp.status \in retry.httpStatus
                       \/ last.resp.status = StatusTooManyRequests
                       \/ /\ last.resp.status >= StatusInternalServerError
                          /\ last.resp.status <= StatusNetworkConnectTimeout
                          /\ last.resp.status # StatusNotImplemented)

\* C24: when the response of a retried attempt carries Retry-After: N, the
\* wait before the next attempt is at least N seconds, whatever the
\* configured delay and jitter.
RetryAfterIsLowerBound ==
    (ev.op = "getDelay" /\ last.err.kind = "nil" /\ last.resp.retryAfter >= 0)
        => ev.ret >= last.resp.retryAfter


\* The errors the read helpers may fail with on the object r after n earlier
\* invocations of a read helper.
ApplicableReadErrors(r, n) ==
    (IF r.closed THEN {"ErrBodyReadAfterClose"} ELSE {})
    \cup (IF n > 0 THEN {"ErrResponseBodyAlreadyRead"} ELSE {})
    \cup (IF r.body = "nil" THEN {"ErrResponseBodyNoContent"} ELSE {})

\* C26: a ReadBytes or ReadJSON call made after Close, after an earlier read
\* helper, or on a Response without a body fails, with the error of a
\* condition that holds (ErrBodyReadAfterClose, ErrResponseBodyAlreadyRead,
\* ErrResponseBodyNoContent) and without handing content; a call made when
\* none of them holds reads the body; so the content is handed at most once.
ReadFailsOnceReadClosedOrAbsent ==
    /\ bodyLog.handed <= 1
    /\ ev.op \in {"ReadBytes", "ReadJSON"} =>
          LET errs == ApplicableReadErrors(ev.rec[1], ev.rec[2].reads) IN
          IF errs # {} THEN ev.ret \in errs /\ ev.arg = 0
          ELSE ev.arg = 1 /\ ev.ret \in {"nil", "read error"}

\* A second read helper has been called on a Response with a body, open, after a
\* first one read it.
SecondReadReached ==
    /\ ev.op \in {"ReadBytes", "ReadJSON"}
    /\ ev.rec[1] = [body |-> "present", isBodyRead |-> TRUE, closed |-> FALSE]
    /\ ev.ret = "ErrResponseBodyAlreadyRead"
    /\ bodyLog.handed = 1

\* C27: on a Response with a body, the underlying body has been closed
\* exactly once as soon as any of ReadBytes, ReadJSON and Close was called,
\* and never before nor again; a Close on a closed Response returns nil and
\* changes nothing.
BodyClosedExactlyOnce ==
    /\ response.body = "present" =>
          bodyLog.closes = (IF bodyLog.calls > 0 THEN 1 ELSE 0)
    /\ (ev.op = "Close" /\ ev.rec[1].closed) =>
          /\ ev.ret = "nil"
          /\ response = ev.rec[1]
          /\ bodyLog.closes = ev.rec[2].closes

\* Close has been called on a Response whose body a read helper had read and
\* closed.
CloseAfterReadReached ==
    /\ ev.op = "Close"
    /\ ev.rec[1] = [body |-> "present", isBodyRead |-> TRUE, closed |-> FALSE]
    /\ response.closed
    /\ bodyLog.closes = 1


\* C28: on a host with its health check policy (every host NewHost builds),
\* lastHTTPErrorStatus is 0 before any call; a Do that gets a response of
\* status 500 or more sets it to that status; a Do that gets a lower status
\* or no response, a health probe and every other operation leave it as it
\* was.  So it is the status of the most recent Do response of 500 or more.
LastStatusIsMostRecentServerError ==
    \A h \in SoloHosts :
        /\ ev.op = "none" => lastHTTPErrorStatus[h] = 0
        /\ (ev.op = "Do" /\ ev.host = h /\ ev.arg >= StatusInternalServerError) =>
              lastHTTPErrorStatus[h] = ev.arg
        /\ (ev.op # "none"
              /\ ~(ev.op = "Do" /\ ev.host = h /\ ev.arg >= StatusInternalServerError)) =>
              lastHTTPErrorStatus[h] = ev.pre

\* A Do answered 200 has left a stored 502 in place.
LowerStatusAfterStoredReached ==
    \E h \in SoloHosts :
        /\ ev.op = "Do" /\ ev.host = h
        /\ ev.arg = StatusOK
        /\ ev.pre = StatusBadGateway
        /\ lastHTTPErrorStatus[h] = StatusBadGateway


\* The hosts the test expects from five Next calls after Refresh(H3, H4).
ExpectedAfterRefresh == <<3, 4, 3, 4, 3>>

\* C29: after Refresh with the list (H3, H4) of two untouched hosts of one
\* weight, the Next calls that follow return H3, H4, H3, H4, H3, whatever
\* list, mode and selections came before; and Refresh(nil) leaves the host
\* list, the mode, the traversal counter and the current weights as they were.
RefreshRestartsTraversal ==
    /\ hosts = <<3, 4>> =>
          \A i \in 1..Min(Len(picks), RunCount) : picks[i] = ExpectedAfterRefresh[i]
    /\ ev.op = "RefreshNil" =>
          <<hosts, isSameWeight, totalWeight, currentWeight>> = ev.rec

\* Five Next calls have followed a Refresh to (H3, H4) that came after
\* weighted selections between H1 and H2.
FiveAfterRefreshReached ==
    /\ hosts = <<3, 4>>
    /\ picks = ExpectedAfterRefresh
    /\ currentWeight[1] # 0


\* The hosts the test expects from five Next calls with the weights 5, 2, 1.
ExpectedSequence == <<1, 2, 1, 1, 3>>

\* C30: with three fresh healthy hosts of weights 5, 2 and 1, the first five
\* Next calls return H1, H2, H1, H1, H3 in this order.
FirstFiveFollowWeights ==
    weight = SequenceWeights =>
        \A i \in 1..Min(Len(picks), RunCount) : picks[i] = ExpectedSequence[i]

\* Five Next calls have been made with the weights 5, 2, 1.
TieAtFourthCallReached ==
    /\ weight = SequenceWeights
    /\ Len(picks) = RunCount
    /\ picks = ExpectedSequence


\* Before the Next that ev records, every breaker was open with its delay
\* still running: the scan found no selectable host.
ScanFoundNone ==
    /\ ev.op = "Next"
    /\ \A h \in TrioHosts : ev.rec[2][h].state = "open" /\ ~ev.rec[2][h].expired

\* The hosts whose stored status was not of the outage class before that Next.
FallbackCandidates == {h \in TrioHosts : ~IsServerOutage(ev.rec[3][h])}

\* C31, as stated: when the equal-weight scan finds no selectable host, Next
\* returns a host whose stored status is not of the outage class or, when
\* there is none, the first host of the list, and the cursor advances by one.
ExhaustedScanReturnsFirstHost ==
    ScanFoundNone =>
        /\ IF FallbackCandidates # {} THEN ev.host \in FallbackCandidates
           ELSE ev.host = hosts[1]
        /\ totalWeight = (ev.rec[1] + 1) % Len(hosts)

\* C31, amended: when the equal-weight scan finds no selectable host, Next
\* returns a host whose stored status is not of the outage class or, when
\* there is none, the host at the cursor, and the cursor advances by one.
ExhaustedScanReturnsHostAtCursor ==
    ScanFoundNone =>
        /\ IF FallbackCandidates # {} THEN ev.host \in FallbackCandidates
           ELSE ev.host = hosts[ev.rec[1] + 1]
        /\ totalWeight = (ev.rec[1] + 1) % Len(hosts)

\* A scan that began at the second host found every breaker open with an
\* outage status, and Next returned the second host.
ExhaustedScanAtSecondHostReached ==
    /\ ScanFoundNone
    /\ FallbackCandidates = {}
    /\ ev.rec[1] = 1
    /\ ev.host = hosts[2]
    /\ totalWeight = 2


\* C32: however often End is called on the tracer of an attempt, the span
\* is ended once and http.client.server.duration is recorded at most once,
\* with the attribute set given through SetMetricAttributes.
EndIsIdempotent ==
    /\ span.ends <= 1
    /\ Len(serverDuration) <= 1
    /\ \A i \in 1..Len(serverDuration) : serverDuration[i] = span.metricAttrs


\* C33: http.client.open_connections never falls below its starting value,
\* also when Close is called more than once on a connection, and it is back
\* at its starting value when every dialed connection is closed.
OpenConnectionsBalanced ==
    /\ openConnections >= 0
    /\ (\A c \in Conns : conns[c].state # "open") => openConnections = 0


\* C34: Execute never ends with a nil response and a nil error: when it
\* returns a nil error, the response is there, its status is below 400 and
\* its body has not been closed; and no attempt that doRequest ended with an
\* error or a response makes Execute fail on a missing response.
NilErrorMeansUsableResponse ==
    /\ (pc = "returned" /\ ret.err.kind = "nil") =>
          /\ ret.resp.status # 0
          /\ ret.resp.status < StatusBadRequest
          /\ ret.resp.body \notin {"closed", "copy-of-closed"}
    /\ pc = "panicked" => last.err.attempt # dispatched


\* C36: an attempt whose NewRequest returned no request ends with doRequest
\* returning the error: Execute does not fail inside doRequest, so whenever it
\* fails at all the last attempt is one doRequest returned from.
MissingRequestReturnsError ==
    pc = "panicked" => (dispatched > 0 /\ last.err.attempt = dispatched)

\* C40: with a retry policy of maxAttempts = m >= 1, Execute dispatches at
\* most m attempts and ends by returning, whatever responses and errors the
\* attempts end with.
AtMostMaxAttemptsThenReturns ==
    (retry.set /\ retry.maxAttempts >= 1) =>
        /\ dispatched <= retry.maxAttempts
        /\ pc = "panicked" =>
              ~(last.err.attempt = dispatched
                  /\ last.err.kind \in {"transport", "unsupported", "deadline"})


\* The position in servers of the host a fresh weighted selection takes: the
\* first one with the greatest current weight in cw.
HeaviestIndex(servers, cw) ==
    CHOOSE i \in 1..Len(servers) :
        /\ \A j \in 1..Len(servers) : cw[servers[j]] <= cw[servers[i]]
        /\ \A j \in 1..(i - 1) : cw[servers[j]] < cw[servers[i]]

\* The first n hosts a balancer constructed over servers returns, all hosts
\* healthy: smooth weighted round robin from the current weights cw.
RECURSIVE FreshSequence(_, _, _)
FreshSequence(servers, cw, n) ==
    IF n = 0 THEN <<>>
    ELSE LET added == [h \in DOMAIN cw |->
                          IF \E i \in 1..Len(servers) : servers[i] = h
                          THEN cw[h] + weight[h] ELSE cw[h]]
             best == servers[HeaviestIndex(servers, added)]
         IN <<best>> \o
            FreshSequence(servers,
                          [added EXCEPT ![best] = @ - SumWeights(servers)], n - 1)

\* C38: the hosts Next returns after a Refresh to a list of unequal weights
\* are those a balancer freshly constructed over this list returns, whatever
\* selections its hosts took part in before.
RefreshStartsWeightedSelectionAfresh ==
    (Len(hosts) >= 2 /\ ~isSameWeight) =>
        picks = FreshSequence(hosts, [h \in QuadHosts |-> 0], Len(picks))


\* C37: NewRequest refuses a request only on a status that Do stored during
\* the current failure episode, that is since the breaker was last closed;
\* a status left from an episode the host recovered from refuses nothing.
RefusalNeedsStatusOfThisEpisode ==
    (ev.op = "NewRequest" /\ ev.ret = "refused") => ev.rec[1]

\* A Close call on the balancer has returned.
CloseReturned == \E q \in Procs : proc[q].op = "Close" /\ proc[q].pc = "returned"

\* C39: once a Close call has returned and the ticker of a health-check loop
\* is stopped, this loop runs no CheckHealth probe on any host any more.
NoProbeAfterClose ==
    [][\A p \in Procs :
          (CloseReturned /\ timers[p] = "stopped")
              => ~(proc[p].pc = "loop-probe" /\ proc'[p] # proc[p])]_vars

\* The hosts of the balancer's list.
Listed == {hosts[i] : i \in 1..Len(hosts)}

\* C35: a listed host whose breaker is open and whose delay has elapsed is
\* eventually promoted to half-open by the callers' Next calls, whatever the
\* number of hosts, their weights and the host's last status.
ExpiredOpenHostIsPromoted ==
    \A h \in HostIds :
        (h \in Listed /\ cb[h].state = "open" /\ cb[h].expired)
            ~> (cb[h].state = "half-open")

====
